---- MODULE Spec2Model ----
(***************************************************************************)
(* A model of nightshift's FUSE driver (src/driver/mod.rs, with the older  *)
(* unbuffered write path of src/driver.rs): the operation translator that  *)
(* turns each kernel call into one transaction over the inode store, the   *)
(* directory index and the block store, and the per-handle write buffer.   *)
(*                                                                         *)
(* The driver object has two fields, `db` and `handles`.  The query layer  *)
(* (queries::inode, queries::dir_entry, queries::block), models::Block and *)
(* driver::handle::FileHandle are not part of the sources at hand; they    *)
(* are modelled from the specification's sections 3 and 4.                 *)
(***************************************************************************)
EXTENDS Integers, Sequences, FiniteSets, TLC

(* ------------------------------ bounds --------------------------------- *)

\* Highest inode id the store hands out in a run.
MaxIno == 3

\* Highest link count a link call may start from: rename over an existing name
\* drops an entry without touching the count, so link could raise it for ever.
MaxNlink == 2

\* Write calls served on live handles in a run; the k-th of them carries bytes
\* 10k+1, 10k+2, ...
MaxWrites == 2

\* Lengths of the data a write call carries.
DataLens == 1..3

\* Offsets a write call names.
WriteOffsets == 0..3

\* Offsets and lengths a read call names.
ReadOffsets == {0, 1}

ReadLens == {1, 2, 3, 6}

\* Directory-entry names the kernel passes.
Names == {"a", "b"}

\* Parent ids the kernel passes (1 is the root, 2 the first node made).
ParentIds == {1, 2}

\* The (parent, name) keys of the namespace calls, and those of the runs that
\* also write file content.
Keys == ParentIds \X Names

IoKeys == {<<1, "a">>}

PurgeKeys == {<<1, "a">>, <<1, "b">>}

\* The keys of the runs that rename: two names in the root, one in a node.
RenameKeys == {<<1, "a">>, <<1, "b">>, <<2, "a">>}

InoIds == 1..MaxIno

\* The id open and read are called with in the runs that write file content:
\* the first file made.
IoInos == {2}

\* Handle ids the kernel passes; a handle is opened while one of them is free.
SlotIds == {0}

\* Raw open flag words: O_RDWR.
OpenFlagWords == {2}

\* The handle ids of the runs that hold several files open at once.
SlabSlots == {0, 1, 2}

\* Raw open flag words of the runs that examine the parsing: the four values
\* of the two access-mode bits, O_WRONLY|O_CREAT|O_APPEND,
\* O_RDWR|O_TRUNC|O_SYNC, and O_DSYNC and O_CREAT|O_TRUNC alone.
FlagWords == {0, 1, 2, 3, 1089, 1053186, 4096, 576}

\* The keys of the runs that list directories: three names in the root, one
\* in a node.
ListKeys == {<<1, "a">>, <<1, "b">>, <<1, "c">>, <<2, "a">>}

\* The directory ids, start positions and reply-buffer capacities (in entries)
\* readdir is called with.
ListInos == {1, 2}

ListOffsets == 0..3

ReplyRooms == {1, 2}

\* The visitors a listing is examined with: the one Filesystem::readdir
\* passes, on a reply buffer with room for 1 or 2 entries, and visitors that
\* take 1, 2 or 3 entries a call and return false on the last.
Visitors ==
    {[kind |-> "add", room |-> n] : n \in ReplyRooms}
        \cup {[kind |-> "take", room |-> n] : n \in 1..3}

\* The calls the kernel dispatches together: link on the first or the second
\* file made, to the name "b" in the root, and unlink of "a" and of "b".
ConcCalls ==
    {[op |-> "link", ino |-> i, parent |-> 1, name |-> "b"] : i \in {2, 3}}
        \cup {[op |-> "unlink", ino |-> 0, parent |-> 1, name |-> n] : n \in {"a", "b"}}

\* Callers (RequestInfo uid/gid pairs).
Requests == {[uid |-> 1337, gid |-> 1338]}

\* Raw mode words: S_IFREG|0644, and 0644 with no type bits.
Modes == {33188, 420}

\* umask words.
Umasks == {18}

\* The sizes set_attributes truncates to, and the field sets it carries: a
\* size alone, or a mode, uid and gid with no size.
TruncSizes == 0..3

SizePatches == {[size |-> s] : s \in TruncSizes}

\* The handle ids, offsets and whence values lseek is called with: the second
\* id is never live, and the last whence is none of SEEK_SET, SEEK_CUR, SEEK_END.
SeekHandles == {0, 1}

SeekOffsets == {-8, -2, -1, 0, 1, 2, 7}

Whences == {0, 1, 2, 3}

OwnerPatches == {[mode |-> 384, uid |-> 1, gid |-> 2]}

\* Write offsets of the runs that truncate: the start, and past two blocks.
TruncOffsets == {0, 4}

\* Error kinds a failing storage engine hands to read.
ReadFaults == {"StorageFailure", "Overflow"}

\* The arguments make_node is examined with: S_IFREG|0777, S_IFCHR|0666 and
\* 0777 with no type bits; umasks 022 and 077; a device number.
MknodModes == {33279, 8630, 511}

MknodUmasks == {18, 63}

MknodRdevs == {7}

(* --------------------------- the two fields ---------------------------- *)

VARIABLES
    db,        \* FuseDriver.db: the transactional store's committed state
    handles,   \* FuseDriver.handles: the slab of open file handles
    mounted,   \* the session has delivered init()
    last,      \* the call that was served last, with its reply
    hist,      \* history: the writes each handle accepted since it was opened
    inflight   \* the calls the kernel has dispatched together and their progress

vars == <<db, handles, mounted, last, hist, inflight>>

(* ------------------------------ results -------------------------------- *)

\* Result<T>: Ok(value) carrying the transaction's view of the store.
Ok(d, v) == [err |-> "Ok", db |-> d, val |-> v]

\* Result<T>: Err(kind); the transaction's writes are dropped with it.
Err(d, e) == [err |-> e, db |-> d, val |-> <<>>]

IsOk(r) == r.err = "Ok"

\* The unit block counts are reported in.
POSIX_BLOCK_SIZE == 512

Max(a, b) == IF a >= b THEN a ELSE b

Min(a, b) == IF a <= b THEN a ELSE b

\* Bitwise and of two naturals.
RECURSIVE BitAnd(_, _)
BitAnd(a, b) ==
    IF a = 0 \/ b = 0 THEN 0
    ELSE (a % 2) * (b % 2) + 2 * BitAnd(a \div 2, b \div 2)

\* a & !b on naturals.
AndNot(a, b) == a - BitAnd(a, b)

\* body(x) for x = v, with v evaluated once: a `let x = v;` of the code.
Bind(v, body(_)) == CHOOSE out \in {body(x) : x \in {v}} : TRUE

\* A function with key k dropped.
Drop(f, k) == [x \in DOMAIN f \ {k} |-> f[x]]

\* A function with key k set to v, added when absent.
Put(f, k, v) == [x \in DOMAIN f \cup {k} |-> IF x = k THEN v ELSE f[x]]

(* ------------------------------ inode store ---------------------------- *)

\* queries::inode::lookup
inode_lookup(d, ino) ==
    IF ino \in DOMAIN d.inodes THEN Ok(d, d.inodes[ino]) ELSE Err(d, "NotFound")

\* queries::inode::create: the store assigns the next id into attr.ino.
inode_create(d, attr) ==
    LET id == d.next_ino
        rec == [attr EXCEPT !.ino = id]
    IN Ok([d EXCEPT !.inodes = Put(d.inodes, id, rec), !.next_ino = id + 1], rec)

\* queries::inode::set_attr: a single-field UPDATE; no row, nothing changes.
inode_set_attr(d, ino, field, value) ==
    IF ino \in DOMAIN d.inodes
    THEN Ok([d EXCEPT !.inodes[ino][field] = value], <<>>)
    ELSE Ok(d, <<>>)

\* queries::inode::remove
inode_remove(d, ino) == Ok([d EXCEPT !.inodes = Drop(d.inodes, ino)], <<>>)

(* ---------------------------- directory index -------------------------- *)

\* queries::dir_entry::lookup
dir_entry_lookup(d, parent, name) ==
    IF <<parent, name>> \in DOMAIN d.dir_entries
    THEN Ok(d, d.dir_entries[<<parent, name>>])
    ELSE Err(d, "NotFound")

\* queries::dir_entry::create
dir_entry_create(d, parent, name, ino) ==
    IF <<parent, name>> \in DOMAIN d.dir_entries
    THEN Err(d, "AlreadyExists")
    ELSE Ok([d EXCEPT !.dir_entries = Put(d.dir_entries, <<parent, name>>, ino)], <<>>)

\* queries::dir_entry::remove
dir_entry_remove(d, parent, name) ==
    IF <<parent, name>> \in DOMAIN d.dir_entries
    THEN Ok([d EXCEPT !.dir_entries = Drop(d.dir_entries, <<parent, name>>)], <<>>)
    ELSE Err(d, "NotFound")

\* queries::dir_entry::is_dir_empty
is_dir_empty(d, ino) == \A k \in DOMAIN d.dir_entries : k[1] # ino

\* The order of the entries of a directory, and the position an entry
\* carries: its name's place in that order; 0 is the origin.
NameOrder == <<"a", "b", "c">>

PosOf(name) == CHOOSE i \in 1..Len(NameOrder) : NameOrder[i] = name

\* fuser's ReplyDirectory::add on a buffer with room for v.room entries: true
\* when the buffer is full and the entry is left out.  The other visitors
\* take the entry and return whether they want more.
Visit(v, buf, e) ==
    IF v.kind = "add"
    THEN IF Len(buf) >= v.room THEN [more |-> TRUE, buf |-> buf]
         ELSE [more |-> FALSE, buf |-> Append(buf, e)]
    ELSE [more |-> Len(buf) + 1 < v.room, buf |-> Append(buf, e)]

\* The loop of list: the entries in order, until the visitor returns false.
RECURSIVE ListVisit(_, _, _)
ListVisit(es, v, buf) ==
    IF es = <<>> THEN buf
    ELSE Bind(Visit(v, buf, Head(es)), LAMBDA r :
              IF r.more THEN ListVisit(Tail(es), v, r.buf) ELSE r.buf)

\* queries::dir_entry::list_dir: the entries under ino strictly after offset,
\* each with its child id, position, kind and name; the value is what the
\* visitor has gathered.
list_dir(d, ino, offset, v) ==
    LET names == SelectSeq(NameOrder, LAMBDA n :
                     <<ino, n>> \in DOMAIN d.dir_entries /\ PosOf(n) > offset)
        es == [i \in 1..Len(names) |->
                 [ino |-> d.dir_entries[<<ino, names[i]>>],
                  offset |-> PosOf(names[i]),
                  kind |-> d.inodes[d.dir_entries[<<ino, names[i]>>]].kind,
                  name |-> names[i]]]
    IN Ok(d, ListVisit(es, v, <<>>))

\* queries::dir_entry::rename: the old key goes, the new key maps to the same
\* child, replacing whatever was there.
dir_entry_rename(d, parent, name, newparent, newname) ==
    IF <<parent, name>> \in DOMAIN d.dir_entries
    THEN LET child == d.dir_entries[<<parent, name>>]
         IN Ok([d EXCEPT !.dir_entries =
                    Put(Drop(d.dir_entries, <<parent, name>>), <<newparent, newname>>, child)],
               <<>>)
    ELSE Err(d, "NotFound")

(* ------------------------------ block store ---------------------------- *)

\* queries::block::remove_blocks_from: every block of ino numbered >= first.
remove_blocks_from(d, ino, first) ==
    Ok([d EXCEPT !.blocks =
            [k \in {x \in DOMAIN d.blocks : ~(x[1] = ino /\ x[2] >= first)} |-> d.blocks[k]]],
       <<>>)

\* models::Block's maximum payload, scaled down from the real block size.
BLOCK_SIZE == 2

\* FileHandle's buffer capacity threshold, scaled down likewise.
BUFFER_CAP == 2

\* Block::offset_to_bno
offset_to_bno(offset) == offset \div BLOCK_SIZE

\* The first n elements of s, and s without them.
Take(s, n) == SubSeq(s, 1, Min(n, Len(s)))

Skip(s, n) == SubSeq(s, Min(n, Len(s)) + 1, Len(s))

\* n zero bytes.
Zeros(n) == [i \in 1..n |-> 0]

\* Block::write_at(file_offset, data) -> (written, diff): the bytes land at
\* file_offset's place inside the block, which grows up to BLOCK_SIZE; diff is
\* what the block's logical length grew by.
write_at(payload, file_offset, data) ==
    LET start == file_offset % BLOCK_SIZE
        written == Min(Len(data), BLOCK_SIZE - start)
        end == start + written
        old == IF Len(payload) < end THEN payload \o Zeros(end - Len(payload)) ELSE payload
    IN [written |-> written,
        diff |-> Max(0, end - Len(payload)),
        payload |-> Take(old, start) \o Take(data, written) \o Skip(old, end)]

\* Block::truncate(new_file_size): the bytes past the boundary go.
block_truncate(payload, size) == Take(payload, size % BLOCK_SIZE)

\* Block::copy_into(buf): the block's bytes, as far as buf has room.
copy_into(payload, buf, cap) == buf \o Take(payload, cap - Len(buf))

\* The block numbers of ino at or after bno, and the lowest of a set of them.
BnosFrom(d, ino, bno) == {k[2] : k \in {x \in DOMAIN d.blocks : x[1] = ino /\ x[2] >= bno}}

Lowest(S) == CHOOSE x \in S : \A y \in S : x <= y

\* queries::block::get_block
get_block(d, ino, bno) ==
    IF <<ino, bno>> \in DOMAIN d.blocks THEN Ok(d, d.blocks[<<ino, bno>>]) ELSE Err(d, "NotFound")

\* queries::block::update
block_update(d, ino, bno, payload) == Ok([d EXCEPT !.blocks[<<ino, bno>>] = payload], <<>>)

\* queries::block::create: a new block holding as many leading bytes as one
\* block takes; the key (ino, bno) is unique.
block_create(d, ino, offset, data) ==
    LET bno == offset_to_bno(offset)
        written == Min(Len(data), BLOCK_SIZE)
    IN IF <<ino, bno>> \in DOMAIN d.blocks THEN Err(d, "StorageFailure")
       ELSE Ok([d EXCEPT !.blocks = Put(d.blocks, <<ino, bno>>, Take(data, written))], written)

\* The overlay pass of the write algorithm: iter_blocks_from(ino, offset) with
\* a visitor that writes into each block and goes on while input remains.
RECURSIVE Overlay(_, _, _, _, _, _)
Overlay(d, ino, bnos, write_offset, data, delta) ==
    IF bnos = {} \/ data = <<>> THEN [db |-> d, offset |-> write_offset, data |-> data, delta |-> delta]
    ELSE Bind(Lowest(bnos), LAMBDA bno :
         Bind(write_at(d.blocks[<<ino, bno>>], write_offset, data), LAMBDA w :
         Bind(IF w.written > 0 THEN block_update(d, ino, bno, w.payload).db ELSE d, LAMBDA d2 :
              Overlay(d2, ino, bnos \ {bno}, write_offset + w.written,
                      Skip(data, w.written), delta + w.diff))))

\* The append pass: create blocks until the input is consumed.
RECURSIVE AppendBlocks(_, _, _, _, _)
AppendBlocks(d, ino, offset, data, delta) ==
    IF data = <<>> THEN Ok(d, delta)
    ELSE Bind(block_create(d, ino, offset, data), LAMBDA c :
              IF ~IsOk(c) THEN c
              ELSE AppendBlocks(c.db, ino, offset + c.val, Skip(data, c.val), delta + c.val))

\* ceil(size / 512): the block count reported for a size.
PosixBlocks(size) == (size + POSIX_BLOCK_SIZE - 1) \div POSIX_BLOCK_SIZE

\* The write algorithm for the byte range [offset, offset + len), as the body of
\* the unbuffered write_impl's transaction has it: overlay from write_offset,
\* then create blocks from `offset`, which the overlay has not advanced, then
\* size and block count.
block_store_write(d, ino, offset, data) ==
    Bind(inode_lookup(d, ino), LAMBDA a :
    IF ~IsOk(a) THEN a
    ELSE Bind(Overlay(d, ino, BnosFrom(d, ino, offset_to_bno(offset)), offset, data, 0), LAMBDA o :
         Bind(AppendBlocks(o.db, ino, offset, o.data, o.delta), LAMBDA c :
         IF ~IsOk(c) THEN Err(d, c.err)
         ELSE Bind(a.val.size + c.val, LAMBDA size :
              Bind(inode_set_attr(c.db, ino, "size", size), LAMBDA s1 :
                   inode_set_attr(s1.db, ino, "blocks", PosixBlocks(size)))))))

\* write_impl of the unbuffered driver: the write algorithm in one write
\* transaction; the value is the length of the data.
write_through_impl(d, ino, offset, data) ==
    Bind(block_store_write(d, ino, offset, data), LAMBDA w :
         IF ~IsOk(w) THEN Err(d, w.err) ELSE Ok(w.db, Len(data)))

(* ------------------------------- open flags --------------------------- *)

\* libc's open flags (Linux, x86-64).
O_RDONLY == 0

O_WRONLY == 1

O_RDWR == 2

O_CREAT == 64

O_TRUNC == 512

O_APPEND == 1024

O_SYNC == 1052672

\* impl From<i32> for OpenFlags
OpenFlagsFrom(flags) ==
    [bits |-> flags,
     read |-> BitAnd(flags, O_WRONLY) = O_RDONLY \/ BitAnd(flags, O_RDWR) = O_RDWR,
     write |-> BitAnd(flags, O_WRONLY) # 0 \/ BitAnd(flags, O_RDWR) = O_RDWR,
     create |-> BitAnd(flags, O_CREAT) = O_CREAT,
     append |-> BitAnd(flags, O_APPEND) = O_APPEND,
     truncate |-> BitAnd(flags, O_TRUNC) = O_TRUNC,
     sync |-> BitAnd(flags, O_SYNC) = O_SYNC]

(* ------------------------------ file handles --------------------------- *)

\* FileHandle::new(ino, size, flags)
NewHandle(ino, size, flags) ==
    [ino |-> ino, offset |-> 0, buffer |-> <<>>, end_offset |-> size, flags |-> flags]

\* FileHandle::write_offset: where the next sequential write is expected.
write_offset(h) == h.offset + Len(h.buffer)

\* FileHandle::buffer_full
buffer_full(h) == Len(h.buffer) >= BUFFER_CAP

\* FileHandle::seek_to
seek_to(h, offset) == [h EXCEPT !.offset = offset]

\* FileHandle::consume_input: takes what fits, returns how much it took.
consume_input(h, data) ==
    LET n == Min(Len(data), BUFFER_CAP - Len(h.buffer))
    IN [handle |-> [h EXCEPT !.buffer = h.buffer \o Take(data, n)], consumed |-> n]

\* FileHandle::flush(tx): commits the buffer at its offset; an empty buffer is
\* a no-op; on an error the buffer stays as it was.
handle_flush(d, h) ==
    IF h.buffer = <<>> THEN Ok(d, h)
    ELSE Bind(block_store_write(d, h.ino, h.offset, h.buffer), LAMBDA w :
              IF ~IsOk(w) THEN Err(d, w.err)
              ELSE Ok(w.db, [h EXCEPT !.offset = h.offset + Len(h.buffer), !.buffer = <<>>]))

\* Slab: the occupied slots, and the vacated ones, last vacated first.
EmptySlab == [entries |-> <<>>, free |-> <<>>]

\* Slab::insert: the slot last vacated, else the next new one.
SlabKey(sl) == IF sl.free # <<>> THEN Head(sl.free) ELSE Cardinality(DOMAIN sl.entries)

SlabInsert(sl, h) ==
    [entries |-> Put(sl.entries, SlabKey(sl), h),
     free |-> IF sl.free # <<>> THEN Tail(sl.free) ELSE sl.free]

\* Slab::try_remove
SlabRemove(sl, fh) == [entries |-> Drop(sl.entries, fh), free |-> <<fh>> \o sl.free]

(* ------------------------------ transactions --------------------------- *)

\* DatabaseOps::with_write_tx / with_read_tx: commit on Ok, roll back on Err.
Commit(d, r) == IF IsOk(r) THEN r.db ELSE d

(* --------------------------- attribute records ------------------------- *)

\* FileType::from_mode: the kind named by the S_IFMT bits, "None" without one.
FileTypeFromMode(mode) ==
    LET fmt == (mode \div 4096) % 16
    IN CASE fmt = 8 -> "RegularFile"
         [] fmt = 4 -> "Directory"
         [] fmt = 10 -> "Symlink"
         [] fmt = 2 -> "CharDevice"
         [] fmt = 6 -> "BlockDevice"
         [] fmt = 1 -> "NamedPipe"
         [] fmt = 12 -> "Socket"
         [] OTHER -> "None"

\* FileAttrBuilder::new_node(kind).with_uid().with_gid().with_mode_umask().with_rdev()
NewNodeAttr(kind, req, mode, umask, rdev) ==
    [ino |-> 0, kind |-> kind, perm |-> AndNot(mode, umask) % 65536, nlink |-> 1,
     uid |-> req.uid, gid |-> req.gid, size |-> 0, blocks |-> 0, rdev |-> rdev]

\* FileAttrBuilder::new_directory().with_mode_umask().with_uid().with_gid()
NewDirAttr(req, mode, umask) ==
    [ino |-> 0, kind |-> "Directory", perm |-> AndNot(mode, umask) % 65536, nlink |-> 2,
     uid |-> req.uid, gid |-> req.gid, size |-> 0, blocks |-> 0, rdev |-> 0]

\* FileAttrBuilder::new_directory().build(): the root's record.
RootAttr ==
    [ino |-> 0, kind |-> "Directory", perm |-> 493, nlink |-> 2,
     uid |-> 1000, gid |-> 1000, size |-> 0, blocks |-> 0, rdev |-> 0]

(* ------------------------- the driver's operations --------------------- *)

\* FuseDriver::ensure_root_exists
ensure_root_exists(d) ==
    LET r == inode_lookup(d, 1)
    IN IF r.err = "NotFound" THEN
           LET c == inode_create(d, RootAttr) IN IF IsOk(c) THEN Ok(c.db, <<>>) ELSE c
       ELSE IF IsOk(r) THEN Ok(d, <<>>) ELSE r

\* lookup_impl, were a missing inode record answered with the root's record
\* instead of the error.
lookup_impl_lenient(d, parent, name) ==
    LET e == dir_entry_lookup(d, parent, name)
    IN IF ~IsOk(e) THEN e
       ELSE IF e.val \in DOMAIN d.inodes THEN inode_lookup(d, e.val) ELSE Ok(d, RootAttr)

\* FuseDriver::lookup_impl
lookup_impl(d, parent, name) ==
    LET e == dir_entry_lookup(d, parent, name)
    IN IF ~IsOk(e) THEN e ELSE inode_lookup(d, e.val)

\* The size branch, were it to leave the blocks past the boundary block alone.
SetSize_keep_tail(d, ino, size) ==
    Bind(offset_to_bno(size), LAMBDA bno :
    Bind(get_block(d, ino, bno), LAMBDA g :
    Bind(IF IsOk(g) THEN block_update(d, ino, bno, block_truncate(g.val, size)).db ELSE d,
         LAMBDA d2 : inode_set_attr(d2, ino, "size", size).db)))

\* The size branch of setattr_impl: the blocks past the boundary block go, the
\* boundary block is cut when there is one, then the size field is patched.
SetSize(d, ino, size) ==
    Bind(offset_to_bno(size), LAMBDA bno :
    Bind(remove_blocks_from(d, ino, bno + 1).db, LAMBDA d1 :
    Bind(get_block(d1, ino, bno), LAMBDA g :
    Bind(IF IsOk(g) THEN block_update(d1, ino, bno, block_truncate(g.val, size)).db ELSE d1,
         LAMBDA d2 : inode_set_attr(d2, ino, "size", size).db))))

\* setattr_impl, were it to run the truncation for the size the inode had
\* before the call and only then patch the new size.
setattr_impl_stale_boundary(d, ino, patch) ==
    Bind(IF "mode" \in DOMAIN patch THEN inode_set_attr(d, ino, "perm", patch.mode).db ELSE d,
         LAMBDA d1 :
    Bind(IF "uid" \in DOMAIN patch THEN inode_set_attr(d1, ino, "uid", patch.uid).db ELSE d1,
         LAMBDA d2 :
    Bind(IF "gid" \in DOMAIN patch THEN inode_set_attr(d2, ino, "gid", patch.gid).db ELSE d2,
         LAMBDA d3 :
    Bind(IF "size" \in DOMAIN patch /\ ino \in DOMAIN d3.inodes
         THEN inode_set_attr(SetSize(d3, ino, d3.inodes[ino].size), ino, "size", patch.size).db
         ELSE d3,
         LAMBDA d4 : inode_lookup(d4, ino)))))

\* FuseDriver::setattr_impl; patch holds the fields the call carries (mode, uid,
\* gid, size).  The time and flags fields are patched the same way as uid.
setattr_impl(d, ino, patch) ==
    Bind(IF "mode" \in DOMAIN patch THEN inode_set_attr(d, ino, "perm", patch.mode).db ELSE d,
         LAMBDA d1 :
    Bind(IF "uid" \in DOMAIN patch THEN inode_set_attr(d1, ino, "uid", patch.uid).db ELSE d1,
         LAMBDA d2 :
    Bind(IF "gid" \in DOMAIN patch THEN inode_set_attr(d2, ino, "gid", patch.gid).db ELSE d2,
         LAMBDA d3 :
    Bind(IF "size" \in DOMAIN patch THEN SetSize(d3, ino, patch.size) ELSE d3,
         LAMBDA d4 : inode_lookup(d4, ino)))))

\* mknod_impl, were the umask left out of the permission bits.
mknod_impl_unmasked(d, req, parent, name, mode, umask, rdev) ==
    LET kind == FileTypeFromMode(mode)
    IN IF kind = "None" THEN Err(d, "InvalidArgument")
       ELSE LET c == inode_create(d, NewNodeAttr(kind, req, mode, 0, rdev))
            IN IF ~IsOk(c) THEN c
               ELSE LET e == dir_entry_create(c.db, parent, name, c.val.ino)
                    IN IF ~IsOk(e) THEN e ELSE Ok(e.db, c.val)

\* mknod_impl, were it to return the record as built, before the store assigned
\* its id.
mknod_impl_unassigned(d, req, parent, name, mode, umask, rdev) ==
    LET kind == FileTypeFromMode(mode)
    IN IF kind = "None" THEN Err(d, "InvalidArgument")
       ELSE LET attr == NewNodeAttr(kind, req, mode, umask, rdev)
                c == inode_create(d, attr)
            IN IF ~IsOk(c) THEN c
               ELSE LET e == dir_entry_create(c.db, parent, name, c.val.ino)
                    IN IF ~IsOk(e) THEN e ELSE Ok(e.db, attr)

\* FuseDriver::mknod_impl
mknod_impl(d, req, parent, name, mode, umask, rdev) ==
    LET kind == FileTypeFromMode(mode)
    IN IF kind = "None" THEN Err(d, "InvalidArgument")
       ELSE LET c == inode_create(d, NewNodeAttr(kind, req, mode, umask, rdev))
            IN IF ~IsOk(c) THEN c
               ELSE LET e == dir_entry_create(c.db, parent, name, c.val.ino)
                    IN IF ~IsOk(e) THEN e ELSE Ok(e.db, c.val)

\* link_impl, were it to return the record as it was looked up.
link_impl_stale(d, ino, newparent, newname) ==
    LET a == inode_lookup(d, ino)
    IN IF ~IsOk(a) THEN a
       ELSE LET e == dir_entry_create(d, newparent, newname, ino)
            IN IF ~IsOk(e) THEN e
               ELSE LET s == inode_set_attr(e.db, ino, "nlink", a.val.nlink + 1)
                    IN IF ~IsOk(s) THEN s ELSE Ok(s.db, a.val)

\* link_impl, were a collision on the new entry passed over instead of ending
\* the transaction: the link count is patched all the same.
link_impl_lenient(d, ino, newparent, newname) ==
    LET a == inode_lookup(d, ino)
    IN IF ~IsOk(a) THEN a
       ELSE LET attr == [a.val EXCEPT !.nlink = a.val.nlink + 1]
                e == dir_entry_create(d, newparent, newname, ino)
                s == inode_set_attr(IF IsOk(e) THEN e.db ELSE d, ino, "nlink", attr.nlink)
            IN IF ~IsOk(s) THEN s ELSE Ok(s.db, attr)

\* FuseDriver::link_impl
link_impl(d, ino, newparent, newname) ==
    LET a == inode_lookup(d, ino)
    IN IF ~IsOk(a) THEN a
       ELSE LET attr == [a.val EXCEPT !.nlink = a.val.nlink + 1]
                e == dir_entry_create(d, newparent, newname, ino)
            IN IF ~IsOk(e) THEN e
               ELSE LET s == inode_set_attr(e.db, ino, "nlink", attr.nlink)
                    IN IF ~IsOk(s) THEN s ELSE Ok(s.db, attr)

\* link_impl as the transactions it runs, were the record looked up in a
\* transaction of its own and the entry and the count written in a second.
link_call_two_tx(d, stage, loc, ino, newparent, newname) ==
    IF stage = 1
    THEN Bind(inode_lookup(d, ino), LAMBDA a :
              [r |-> a, more |-> IsOk(a), loc |-> a.val])
    ELSE LET attr == [loc EXCEPT !.nlink = loc.nlink + 1]
             e == dir_entry_create(d, newparent, newname, ino)
         IN IF ~IsOk(e) THEN [r |-> e, more |-> FALSE, loc |-> loc]
            ELSE [r |-> Ok(inode_set_attr(e.db, ino, "nlink", attr.nlink).db, attr),
                  more |-> FALSE, loc |-> loc]

\* FuseDriver::link_impl as the transactions it runs: the whole body is one
\* with_write_tx closure, so the first transaction is the last.
link_call(d, stage, loc, ino, newparent, newname) ==
    [r |-> link_impl(d, ino, newparent, newname), more |-> FALSE, loc |-> loc]

\* unlink_impl, were the purge of an inode to leave its blocks behind.
unlink_impl_keep_blocks(d, parent, name) ==
    LET e == dir_entry_lookup(d, parent, name)
    IN IF ~IsOk(e) THEN e
       ELSE LET ino == e.val
                a == inode_lookup(d, ino)
            IN IF ~IsOk(a) THEN a
               ELSE IF a.val.nlink = 0 THEN Err(d, "Panic")
               ELSE LET nlink == a.val.nlink - 1
                        s == IF nlink > 0
                             THEN inode_set_attr(d, ino, "nlink", nlink)
                             ELSE inode_remove(d, ino)
                    IN IF ~IsOk(s) THEN s
                       ELSE dir_entry_remove(s.db, parent, name)

\* FuseDriver::unlink_impl.  `attr.nlink -= 1` is u32 arithmetic: on a stored 0
\* it overflows (a panic under overflow checks); no operation stores a link
\* count of 0, so the case is never reached.
unlink_impl(d, parent, name) ==
    LET e == dir_entry_lookup(d, parent, name)
    IN IF ~IsOk(e) THEN e
       ELSE LET ino == e.val
                a == inode_lookup(d, ino)
            IN IF ~IsOk(a) THEN a
               ELSE IF a.val.nlink = 0 THEN Err(d, "Panic")
               ELSE LET nlink == a.val.nlink - 1
                        s == IF nlink > 0
                             THEN inode_set_attr(d, ino, "nlink", nlink)
                             ELSE LET b == remove_blocks_from(d, ino, 0)
                                  IN IF ~IsOk(b) THEN b ELSE inode_remove(b.db, ino)
                    IN IF ~IsOk(s) THEN s
                       ELSE dir_entry_remove(s.db, parent, name)

\* FuseDriver::unlink_impl as the transactions it runs: one with_write_tx
\* closure.
unlink_call(d, stage, loc, parent, name) ==
    [r |-> unlink_impl(d, parent, name), more |-> FALSE, loc |-> loc]

\* FuseDriver::mkdir_impl
mkdir_impl(d, req, parent, name, mode, umask) ==
    LET c == inode_create(d, NewDirAttr(req, mode, umask))
    IN IF ~IsOk(c) THEN c
       ELSE LET e == dir_entry_create(c.db, parent, name, c.val.ino)
            IN IF ~IsOk(e) THEN e ELSE Ok(e.db, c.val)

\* rmdir_impl, were it to skip the emptiness check.
rmdir_impl_unchecked(d, parent, name) ==
    LET e == dir_entry_lookup(d, parent, name)
    IN IF ~IsOk(e) THEN e
       ELSE LET r == inode_remove(d, e.val)
            IN IF ~IsOk(r) THEN r ELSE dir_entry_remove(r.db, parent, name)

\* FuseDriver::rmdir_impl
rmdir_impl(d, parent, name) ==
    LET e == dir_entry_lookup(d, parent, name)
    IN IF ~IsOk(e) THEN e
       ELSE LET ino == e.val
            IN IF ~is_dir_empty(d, ino) THEN Err(d, "NotEmpty")
               ELSE LET r == inode_remove(d, ino)
                    IN IF ~IsOk(r) THEN r ELSE dir_entry_remove(r.db, parent, name)

\* rename_impl, were it to refuse a destination that exists.
rename_impl_exclusive(d, parent, name, newparent, newname) ==
    IF <<parent, name>> # <<newparent, newname>>
       /\ <<newparent, newname>> \in DOMAIN d.dir_entries
    THEN Err(d, "AlreadyExists")
    ELSE dir_entry_rename(d, parent, name, newparent, newname)

\* FuseDriver::rename_impl
rename_impl(d, parent, name, newparent, newname) ==
    dir_entry_rename(d, parent, name, newparent, newname)

\* A handle-scoped call's result: the store as committed so far, the slab as
\* the call left it, the error kind and the value.
HRes(e, d, sl, v) == [err |-> e, db |-> d, handles |-> sl, val |-> v]

\* open_impl, were the handle's id taken from the number of live handles.
open_impl_counted(d, sl, ino, flags) ==
    LET a == inode_lookup(d, ino)
        fh == Cardinality(DOMAIN sl.entries)
    IN IF ~IsOk(a) THEN HRes(a.err, d, sl, <<>>)
       ELSE HRes("Ok", d,
                 [sl EXCEPT !.entries = Put(sl.entries, fh, NewHandle(ino, a.val.size, flags))],
                 <<fh, flags.bits>>)

\* readdir_impl, were the listing to start at the origin whatever the offset.
readdir_impl_restart(d, ino, offset, v) ==
    Bind(list_dir(d, ino, 0, v), LAMBDA r : IF ~IsOk(r) THEN r ELSE Ok(d, r.val))

\* FuseDriver::readdir_impl: v stands for the visitor and its reply buffer.
readdir_impl(d, ino, offset, v) ==
    Bind(list_dir(d, ino, offset, v), LAMBDA r : IF ~IsOk(r) THEN r ELSE Ok(d, r.val))

\* FuseDriver::open_impl: flags is the parsed value.
open_impl(d, sl, ino, flags) ==
    LET a == inode_lookup(d, ino)
    IN IF ~IsOk(a) THEN HRes(a.err, d, sl, <<>>)
       ELSE HRes("Ok", d, SlabInsert(sl, NewHandle(ino, a.val.size, flags)),
                 <<SlabKey(sl), flags.bits>>)

\* release_impl, were a handle id without a handle behind it answered with
\* success.
release_impl_lenient(d, sl, fh) ==
    IF fh \notin DOMAIN sl.entries THEN HRes("Ok", d, sl, <<>>)
    ELSE Bind(handle_flush(d, sl.entries[fh]), LAMBDA f :
              HRes(f.err, Commit(d, f), SlabRemove(sl, fh), <<>>))

\* release_impl as the unbuffered driver has it: the handle leaves the slab and
\* nothing is flushed.
release_impl_unflushed(d, sl, fh) ==
    IF fh \notin DOMAIN sl.entries THEN HRes("NotFound", d, sl, <<>>)
    ELSE HRes("Ok", d, SlabRemove(sl, fh), <<>>)

\* FuseDriver::release_impl: the handle leaves the slab, then its buffer is
\* flushed in a write transaction.
release_impl(d, sl, fh) ==
    IF fh \notin DOMAIN sl.entries THEN HRes("NotFound", d, sl, <<>>)
    ELSE Bind(handle_flush(d, sl.entries[fh]), LAMBDA f :
              HRes(f.err, Commit(d, f), SlabRemove(sl, fh), <<>>))

\* lseek's whence values (libc).
SEEK_SET == 0

SEEK_CUR == 1

SEEK_END == 2

\* The largest i64, scaled down: the file offsets and positions lseek_impl
\* computes with are i64.
I64_MAX == 7

\* a + b in i64 arithmetic without overflow checks: the sum wraps around.
i64_wrapping_add(a, b) ==
    ((a + b + I64_MAX + 1) % (2 * (I64_MAX + 1))) - (I64_MAX + 1)

\* u64::try_from(pos) and the assignment to handle.offset, then the value
\* lseek_impl returns: a negative position is an InvalidArgument and the
\* handle stays as it was.
set_offset(d, sl, fh, pos) ==
    IF pos < 0 THEN HRes("InvalidArgument", d, sl, <<>>)
    ELSE HRes("Ok", d, [sl EXCEPT !.entries[fh].offset = pos], pos)

\* `base += offset` on i64, then set_offset: a sum out of i64's range panics
\* under overflow checks and wraps without them.
seek_by(d, sl, fh, base, offset, overflow_checks) ==
    IF base + offset > I64_MAX /\ overflow_checks THEN HRes("Panic", d, sl, <<>>)
    ELSE set_offset(d, sl, fh, i64_wrapping_add(base, offset))

\* lseek_impl, were SEEK_END to start from the size the handle recorded when
\* it was opened.
lseek_impl_cached_end(d, sl, ino, fh, offset, whence, overflow_checks) ==
    IF fh \notin DOMAIN sl.entries THEN HRes("NotFound", d, sl, <<>>)
    ELSE IF whence = SEEK_SET THEN set_offset(d, sl, fh, offset)
    ELSE IF whence = SEEK_CUR
         THEN seek_by(d, sl, fh, sl.entries[fh].offset, offset, overflow_checks)
    ELSE IF whence = SEEK_END
         THEN seek_by(d, sl, fh, sl.entries[fh].end_offset, offset, overflow_checks)
    ELSE HRes("InvalidArgument", d, sl, <<>>)

\* FuseDriver::lseek_impl: the handle is looked up first; SEEK_END reads the
\* size of inode ino in a read transaction.
lseek_impl(d, sl, ino, fh, offset, whence, overflow_checks) ==
    IF fh \notin DOMAIN sl.entries THEN HRes("NotFound", d, sl, <<>>)
    ELSE IF whence = SEEK_SET THEN set_offset(d, sl, fh, offset)
    ELSE IF whence = SEEK_CUR
         THEN seek_by(d, sl, fh, sl.entries[fh].offset, offset, overflow_checks)
    ELSE IF whence = SEEK_END
         THEN Bind(inode_lookup(d, ino), LAMBDA a :
              IF ~IsOk(a) THEN HRes(a.err, d, sl, <<>>)
              ELSE seek_by(d, sl, fh, a.val.size, offset, overflow_checks))
    ELSE HRes("InvalidArgument", d, sl, <<>>)

\* The visitor of read_impl: each block is copied into buf, and the scan goes
\* on while buf holds fewer than cap bytes.
RECURSIVE ReadVisit(_, _, _, _, _)
ReadVisit(d, ino, bnos, buf, cap) ==
    IF bnos = {} THEN buf
    ELSE Bind(Lowest(bnos), LAMBDA bno :
         Bind(copy_into(d.blocks[<<ino, bno>>], buf, cap), LAMBDA buf2 :
              IF Len(buf2) < cap THEN ReadVisit(d, ino, bnos \ {bno}, buf2, cap) ELSE buf2))

\* FuseDriver::read_impl.  `attr.size - offset` is u64 arithmetic: with
\* offset > size it panics under overflow checks and wraps without them, which
\* leaves cap = size.
read_impl(d, ino, offset, size, overflow_checks) ==
    Bind(inode_lookup(d, ino), LAMBDA a :
    IF ~IsOk(a) THEN a
    ELSE IF offset > a.val.size /\ overflow_checks THEN Err(d, "Panic")
    ELSE Bind(IF offset > a.val.size THEN size ELSE Min(size, a.val.size - offset), LAMBDA cap :
              Ok(d, ReadVisit(d, ino, BnosFrom(d, ino, offset_to_bno(offset)), <<>>, cap))))

\* Filesystem::read's reply, were NotFound answered like any other error.
read_reply_strict(r) ==
    IF IsOk(r) THEN [kind |-> "data", data |-> r.val]
    ELSE [kind |-> "error", data |-> <<>>]

\* Filesystem::read's reply: NotFound is answered with empty data.
read_reply(r) ==
    IF IsOk(r) THEN [kind |-> "data", data |-> r.val]
    ELSE IF r.err = "NotFound" THEN [kind |-> "data", data |-> <<>>]
    ELSE [kind |-> "error", data |-> <<>>]

\* The loop of write_impl: flush when the buffer is full, then consume.
RECURSIVE WriteLoop(_, _, _)
WriteLoop(d, h, data) ==
    IF data = <<>> THEN [err |-> "Ok", db |-> d, handle |-> h]
    ELSE Bind(IF buffer_full(h) THEN handle_flush(d, h) ELSE Ok(d, h), LAMBDA f :
              IF ~IsOk(f) THEN [err |-> f.err, db |-> d, handle |-> h]
              ELSE Bind(consume_input(f.val, data), LAMBDA c :
                        WriteLoop(f.db, c.handle, Skip(data, c.consumed))))

\* write_impl, were it to report only the bytes the buffer had room for at
\* first.
write_impl_short(d, sl, fh, offset, data) ==
    IF fh \notin DOMAIN sl.entries THEN HRes("NotFound", d, sl, <<>>)
    ELSE Bind(sl.entries[fh], LAMBDA h :
         Bind(IF write_offset(h) # offset THEN handle_flush(d, h) ELSE Ok(d, h), LAMBDA f :
         IF ~IsOk(f) THEN HRes(f.err, d, sl, <<>>)
         ELSE Bind(IF write_offset(h) # offset THEN seek_to(f.val, offset) ELSE h, LAMBDA h1 :
              Bind(WriteLoop(f.db, h1, data), LAMBDA w :
                   HRes(w.err, w.db, [sl EXCEPT !.entries[fh] = w.handle],
                        IF w.err = "Ok" THEN Min(Len(data), BUFFER_CAP - Len(h1.buffer))
                        ELSE <<>>)))))

\* write_impl, were a seek to move the cursor without flushing the buffer.
write_impl_unflushed_seek(d, sl, fh, offset, data) ==
    IF fh \notin DOMAIN sl.entries THEN HRes("NotFound", d, sl, <<>>)
    ELSE Bind(sl.entries[fh], LAMBDA h :
         Bind(IF write_offset(h) # offset THEN seek_to(h, offset) ELSE h, LAMBDA h1 :
         Bind(WriteLoop(d, h1, data), LAMBDA w :
              HRes(w.err, w.db, [sl EXCEPT !.entries[fh] = w.handle],
                   IF w.err = "Ok" THEN Len(data) ELSE <<>>))))

\* FuseDriver::write_impl
write_impl(d, sl, fh, offset, data) ==
    IF fh \notin DOMAIN sl.entries THEN HRes("NotFound", d, sl, <<>>)
    ELSE Bind(sl.entries[fh], LAMBDA h :
         Bind(IF write_offset(h) # offset THEN handle_flush(d, h) ELSE Ok(d, h), LAMBDA f :
         IF ~IsOk(f) THEN HRes(f.err, d, sl, <<>>)
         ELSE Bind(IF write_offset(h) # offset THEN seek_to(f.val, offset) ELSE h, LAMBDA h1 :
              Bind(WriteLoop(f.db, h1, data), LAMBDA w :
                   HRes(w.err, w.db, [sl EXCEPT !.entries[fh] = w.handle],
                        IF w.err = "Ok" THEN Len(data) ELSE <<>>)))))

\* flush_impl, were it to advance the handle's cursor and keep the bytes it
\* has just committed in the buffer.
flush_impl_keep_buffer(d, sl, fh) ==
    IF fh \notin DOMAIN sl.entries THEN HRes("NotFound", d, sl, <<>>)
    ELSE Bind(handle_flush(d, sl.entries[fh]), LAMBDA f :
              IF ~IsOk(f) THEN HRes(f.err, d, sl, <<>>)
              ELSE HRes("Ok", f.db, [sl EXCEPT !.entries[fh].offset = f.val.offset], <<>>))

\* flush_impl, were it to answer without committing the buffer.
flush_impl_idle(d, sl, fh) ==
    IF fh \notin DOMAIN sl.entries THEN HRes("NotFound", d, sl, <<>>)
    ELSE HRes("Ok", d, sl, <<>>)

\* FuseDriver::flush_impl
flush_impl(d, sl, fh) ==
    IF fh \notin DOMAIN sl.entries THEN HRes("NotFound", d, sl, <<>>)
    ELSE Bind(handle_flush(d, sl.entries[fh]), LAMBDA f :
              IF ~IsOk(f) THEN HRes(f.err, d, sl, <<>>)
              ELSE HRes("Ok", f.db, [sl EXCEPT !.entries[fh] = f.val], <<>>))

(* -------------------------------- actions ------------------------------ *)

Call(op, args, r) == [op |-> op, args |-> args, err |-> r.err, val |-> r.val]

EmptyDb == [inodes |-> <<>>, next_ino |-> 1, dir_entries |-> <<>>, blocks |-> <<>>]

\* The data of the k-th write call: n bytes no other write carries.
WriteData(k, n) == [i \in 1..n |-> 10 * k + i]

\* Writes accepted so far for ino, through any handle.
NW(ino) == IF ino \in DOMAIN hist.nw THEN hist.nw[ino] ELSE 0

Init ==
    /\ db = EmptyDb
    /\ handles = EmptySlab
    /\ mounted = FALSE
    /\ last = [op |-> "new", args |-> <<>>, err |-> "Ok", val |-> <<>>]
    /\ hist = [n |-> 0, nw |-> <<>>, slots |-> <<>>]
    /\ inflight = <<>>

\* Filesystem::init
FsInit ==
    /\ ~mounted
    /\ LET r == ensure_root_exists(db)
       IN /\ db' = Commit(db, r)
          /\ mounted' = IsOk(r)
          /\ last' = Call("init", <<>>, r)
    /\ UNCHANGED <<handles, hist, inflight>>

\* FuseDriver::new and Filesystem::init on the store an earlier session left,
\* once that session's handles are released: the slab starts empty.
Remount ==
    /\ mounted
    /\ DOMAIN handles.entries = {}
    /\ 1 \notin DOMAIN db.inodes => db.next_ino <= MaxIno
    /\ LET r == ensure_root_exists(db)
       IN /\ db' = Commit(db, r)
          /\ mounted' = IsOk(r)
          /\ last' = Call("init", <<>>, r)
    /\ handles' = EmptySlab
    /\ UNCHANGED <<hist, inflight>>

\* Filesystem::lookup
Lookup(K) ==
    /\ mounted
    /\ \E k \in K :
         last' = Call("lookup", k, lookup_impl(db, k[1], k[2]))
    /\ UNCHANGED <<db, handles, mounted, hist, inflight>>

\* Filesystem::mknod
Mknod(K) ==
    /\ mounted
    /\ db.next_ino <= MaxIno
    /\ \E req \in Requests, k \in K, mode \in Modes, umask \in Umasks :
         LET r == mknod_impl(db, req, k[1], k[2], mode, umask, 0)
         IN /\ db' = Commit(db, r)
            /\ last' = Call("mknod", k, r)
    /\ UNCHANGED <<handles, mounted, hist, inflight>>

\* Filesystem::mkdir
Mkdir(K) ==
    /\ mounted
    /\ db.next_ino <= MaxIno
    /\ \E req \in Requests, k \in K, umask \in Umasks :
         LET r == mkdir_impl(db, req, k[1], k[2], 493, umask)
         IN /\ db' = Commit(db, r)
            /\ last' = Call("mkdir", k, r)
    /\ UNCHANGED <<handles, mounted, hist, inflight>>

\* Filesystem::link
Link(K) ==
    /\ mounted
    /\ \E ino \in InoIds, k \in K :
         LET r == link_impl(db, ino, k[1], k[2])
         IN /\ ino \in DOMAIN db.inodes => db.inodes[ino].nlink < MaxNlink
            /\ db' = Commit(db, r)
            /\ last' = Call("link", <<ino, k[1], k[2]>>, r)
    /\ UNCHANGED <<handles, mounted, hist, inflight>>

\* Filesystem::link on a directory: its count starts at 2, so one link more
\* than a file is let through.
LinkDir(K) ==
    /\ mounted
    /\ \E ino \in InoIds, k \in K :
         LET r == link_impl(db, ino, k[1], k[2])
         IN /\ ino \in DOMAIN db.inodes
            /\ db.inodes[ino].kind = "Directory"
            /\ db.inodes[ino].nlink <= MaxNlink
            /\ db' = Commit(db, r)
            /\ last' = Call("link", <<ino, k[1], k[2]>>, r)
    /\ UNCHANGED <<handles, mounted, hist, inflight>>

\* Filesystem::unlink
Unlink(K) ==
    /\ mounted
    /\ \E k \in K :
         LET r == unlink_impl(db, k[1], k[2])
         IN /\ db' = Commit(db, r)
            /\ last' = Call("unlink", k, r)
    /\ UNCHANGED <<handles, mounted, hist, inflight>>

\* Filesystem::rmdir
Rmdir(K) ==
    /\ mounted
    /\ \E k \in K :
         LET r == rmdir_impl(db, k[1], k[2])
         IN /\ db' = Commit(db, r)
            /\ last' = Call("rmdir", k, r)
    /\ UNCHANGED <<handles, mounted, hist, inflight>>

\* Filesystem::rename
Rename(K) ==
    /\ mounted
    /\ \E k \in K, nk \in K :
         LET r == rename_impl(db, k[1], k[2], nk[1], nk[2])
         IN /\ db' = Commit(db, r)
            /\ last' = Call("rename", <<k[1], k[2], nk[1], nk[2]>>, r)
    /\ UNCHANGED <<handles, mounted, hist, inflight>>

\* Filesystem::open, with the raw flag words F, while a handle id of S is next.
OpenWith(I, F, S) ==
    /\ mounted
    /\ SlabKey(handles) \in S
    /\ \E ino \in I, flags \in F :
       \E r \in {open_impl(db, handles, ino, OpenFlagsFrom(flags))} :
         LET fresh == /\ ino \in DOMAIN db.inodes
                      /\ db.inodes[ino].size = 0
                      /\ BnosFrom(db, ino, 0) = {}
                      /\ NW(ino) = 0
         IN /\ handles' = r.handles
            /\ last' = Call("open", <<ino, flags>>, r)
            /\ hist' = IF IsOk(r)
                       THEN [hist EXCEPT !.slots = Put(hist.slots, r.val[1],
                                [ino |-> ino, fresh |-> fresh, writes |-> <<>>,
                                 flushed |-> FALSE, mid |-> FALSE,
                                 released |-> FALSE, ok |-> TRUE])]
                       ELSE hist
    /\ UNCHANGED <<db, mounted, inflight>>

Open(I) == OpenWith(I, OpenFlagWords, SlotIds)

\* Filesystem::write
Write(S, O, L) ==
    /\ mounted
    /\ hist.n < MaxWrites
    /\ \E fh \in S, offset \in O, len \in L :
       \E data \in {WriteData(hist.n + 1, len)} :
       \E r \in {write_impl(db, handles, fh, offset, data)} :
         LET live == fh \in DOMAIN handles.entries
             ino == handles.entries[fh].ino
         IN /\ db' = r.db
            /\ handles' = r.handles
            /\ last' = Call("write", <<fh, offset, data>>, r)
            /\ hist' = IF ~live THEN hist
                       ELSE [hist EXCEPT
                               !.n = hist.n + 1,
                               !.nw = Put(hist.nw, ino, NW(ino) + 1),
                               !.slots[fh].writes =
                                   IF IsOk(r) THEN @ \o <<[offset |-> offset, data |-> data]>> ELSE @,
                               !.slots[fh].mid = @ \/ (hist.slots[fh].flushed
                                                        /\ hist.slots[fh].writes # <<>>),
                               !.slots[fh].flushed = FALSE,
                               !.slots[fh].ok = @ /\ IsOk(r)]
    /\ UNCHANGED <<mounted, inflight>>

\* Filesystem::write of the unbuffered driver: the data goes to the block
\* store within the call.
WriteThrough(I, O, L) ==
    /\ mounted
    /\ hist.n < MaxWrites
    /\ \E ino \in I, offset \in O, len \in L :
       \E data \in {WriteData(hist.n + 1, len)} :
       \E r \in {write_through_impl(db, ino, offset, data)} :
         /\ db' = Commit(db, r)
         /\ last' = Call("write_through", <<ino, offset, data>>, r)
         /\ hist' = [hist EXCEPT !.n = hist.n + 1, !.nw = Put(hist.nw, ino, NW(ino) + 1)]
    /\ UNCHANGED <<handles, mounted, inflight>>

\* Filesystem::flush
Flush(S) ==
    /\ mounted
    /\ \E fh \in S :
       \E r \in {flush_impl(db, handles, fh)} :
         LET live == fh \in DOMAIN handles.entries
         IN /\ db' = r.db
            /\ handles' = r.handles
            /\ last' = Call("flush", <<fh>>, r)
            /\ hist' = IF ~live THEN hist
                       ELSE [hist EXCEPT !.slots[fh].flushed = TRUE,
                                         !.slots[fh].ok = @ /\ IsOk(r)]
    /\ UNCHANGED <<mounted, inflight>>

\* Filesystem::release
Release(S) ==
    /\ mounted
    /\ \E fh \in S :
       \E r \in {release_impl(db, handles, fh)} :
         LET live == fh \in DOMAIN handles.entries
         IN /\ db' = r.db
            /\ handles' = r.handles
            /\ last' = Call("release", <<fh>>, r)
            /\ hist' = IF ~live THEN hist
                       ELSE [hist EXCEPT !.slots[fh].released = TRUE,
                                         !.slots[fh].ok = @ /\ IsOk(r)]
    /\ UNCHANGED <<mounted, inflight>>

\* Filesystem::lseek
Lseek(I, S, O, W) ==
    /\ mounted
    /\ \E ino \in I, fh \in S, offset \in O, whence \in W, checks \in BOOLEAN :
       \E r \in {lseek_impl(db, handles, ino, fh, offset, whence, checks)} :
         /\ handles' = r.handles
         /\ last' = Call("lseek", <<ino, fh, offset, whence>>, r)
    /\ UNCHANGED <<db, mounted, hist, inflight>>

\* Filesystem::read
Read(I, O, L) ==
    /\ mounted
    /\ \E ino \in I, offset \in O, size \in L, checks \in BOOLEAN :
       \E r \in {read_impl(db, ino, offset, size, checks)} :
            last' = [op |-> "read", args |-> <<ino, offset, size>>, err |-> r.err,
                     val |-> r.val, reply |-> read_reply(r)]
    /\ UNCHANGED <<db, handles, mounted, hist, inflight>>

\* Every entry under ino names an inode: the listing of a directory with an
\* entry whose inode is gone is left out.
Listable(d, ino) ==
    \A k \in DOMAIN d.dir_entries : k[1] = ino => d.dir_entries[k] \in DOMAIN d.inodes

\* Filesystem::readdir: the visitor is reply.add.
Readdir(I, O, R) ==
    /\ mounted
    /\ \E ino \in I, offset \in O, room \in R :
       \E r \in {readdir_impl(db, ino, offset, [kind |-> "add", room |-> room])} :
         /\ Listable(db, ino)
         /\ last' = [op |-> "readdir", args |-> <<ino, offset>>, err |-> r.err,
                     val |-> r.val, room |-> room]
    /\ UNCHANGED <<db, handles, mounted, hist, inflight>>

\* Filesystem::read, the read transaction failing with an engine error.
ReadFault(I, O, L) ==
    /\ mounted
    /\ \E ino \in I, offset \in O, size \in L, e \in ReadFaults :
       \E r \in {Err(db, e)} :
            last' = [op |-> "read", args |-> <<ino, offset, size>>, err |-> r.err,
                     val |-> r.val, reply |-> read_reply(r)]
    /\ UNCHANGED <<db, handles, mounted, hist, inflight>>

\* Filesystem::setattr
Setattr(I, P) ==
    /\ mounted
    /\ \E ino \in I, patch \in P :
       \E r \in {setattr_impl(db, ino, patch)} :
         /\ db' = Commit(db, r)
         /\ last' = [op |-> "setattr", args |-> <<ino>>, err |-> r.err, val |-> r.val,
                      patch |-> patch]
    /\ UNCHANGED <<handles, mounted, hist, inflight>>

\* The namespace calls.
NextNs ==
    \/ FsInit
    \/ Lookup(Keys)
    \/ Mknod(Keys)
    \/ Mkdir(Keys)
    \/ Link(Keys)
    \/ Unlink(Keys)
    \/ Rmdir(Keys)
    \/ Rename(Keys)

SpecNs == Init /\ [][NextNs]_vars

\* Nodes made, hard-linked, looked up and removed with rmdir.
NextLookup ==
    \/ FsInit
    \/ Mknod(Keys)
    \/ Lookup(Keys)
    \/ Link(Keys)
    \/ Rmdir(Keys)

SpecLookup == Init /\ [][NextLookup]_vars

\* Files and directories made and removed.
NextDir ==
    \/ FsInit
    \/ Mknod(Keys)
    \/ Mkdir(Keys)
    \/ Unlink(Keys)
    \/ Rmdir(Keys)

SpecDir == Init /\ [][NextDir]_vars

\* Files made, hard-linked and renamed.
NextRename ==
    \/ FsInit
    \/ Mknod(RenameKeys)
    \/ Link(RenameKeys)
    \/ Rename(RenameKeys)

SpecRename == Init /\ [][NextRename]_vars

\* The calls that change link counts and entries of files.
NextLinks ==
    \/ FsInit
    \/ Mknod(Keys)
    \/ Link(Keys)
    \/ Unlink(Keys)
    \/ Rename(Keys)

SpecLinks == Init /\ [][NextLinks]_vars

\* Files made, written through handles and read back.
NextIO ==
    \/ FsInit
    \/ Mknod(IoKeys)
    \/ Open(IoInos)
    \/ Write(SlotIds, WriteOffsets, DataLens)
    \/ Flush(SlotIds)
    \/ Release(SlotIds)
    \/ Read(IoInos, {0}, ReadLens)

SpecIO == Init /\ [][NextIO]_vars

\* Files made, hard-linked, written, unlinked and read.
NextPurge ==
    \/ FsInit
    \/ Mknod(IoKeys)
    \/ Link(PurgeKeys)
    \/ Unlink(PurgeKeys)
    \/ Open(IoInos)
    \/ Write(SlotIds, {0}, DataLens)
    \/ Flush(SlotIds)
    \/ Release(SlotIds)
    \/ Read(IoInos, {0}, {6})

SpecPurge == Init /\ [][NextPurge]_vars

(* --------------------------- calls in flight --------------------------- *)

\* The session has no call in flight: none was dispatched, or all have
\* replied.
Idle ==
    IF inflight = <<>> THEN TRUE
    ELSE \A c \in DOMAIN inflight.calls : inflight.calls[c].pc = "done"

\* DatabaseOps::with_write_tx blocks while another write transaction is open.
WriterFree ==
    IF inflight = <<>> THEN TRUE
    ELSE \A c \in DOMAIN inflight.calls : inflight.calls[c].pc # "tx"

\* The next transaction of a call in flight, run on its working store d.
CallTx(d, c) ==
    IF c.op = "link" THEN link_call(d, c.stage, c.loc, c.ino, c.parent, c.name)
    ELSE unlink_call(d, c.stage, c.loc, c.parent, c.name)

\* The kernel dispatches two calls at once, one thread of control each.
Dispatch(C) ==
    /\ mounted
    /\ Idle
    /\ \E c1 \in C, c2 \in C :
         /\ \A i \in DOMAIN db.inodes :
               db.inodes[i].nlink
                   + Cardinality({k \in 1..2 : <<c1, c2>>[k].op = "link"
                                               /\ <<c1, c2>>[k].ino = i}) <= MaxNlink
         /\ inflight' =
               [start |-> db,
                calls |-> [k \in 1..2 |->
                             [op |-> <<c1, c2>>[k].op, ino |-> <<c1, c2>>[k].ino,
                              parent |-> <<c1, c2>>[k].parent, name |-> <<c1, c2>>[k].name,
                              pc |-> "issued", stage |-> 1, loc |-> <<>>,
                              work |-> <<>>, err |-> "Ok", val |-> <<>>]]]
    /\ UNCHANGED <<db, handles, mounted, last, hist>>

\* with_write_tx: a call in flight opens its transaction once no other is
\* open; the transaction works on the store as it is then.
TxBegin ==
    /\ inflight # <<>>
    /\ WriterFree
    /\ \E c \in DOMAIN inflight.calls :
         /\ inflight.calls[c].pc = "issued"
         /\ inflight' = [inflight EXCEPT !.calls[c].pc = "tx", !.calls[c].work = db]
    /\ UNCHANGED <<db, handles, mounted, last, hist>>

\* with_write_tx: the closure runs and the transaction commits, or rolls back
\* on an error; after its last transaction the call replies.
TxCommit ==
    /\ inflight # <<>>
    /\ \E c \in DOMAIN inflight.calls :
         /\ inflight.calls[c].pc = "tx"
         /\ \E t \in {CallTx(inflight.calls[c].work, inflight.calls[c])} :
              /\ db' = Commit(db, t.r)
              /\ IF t.more
                 THEN /\ inflight' = [inflight EXCEPT
                                         !.calls[c].pc = "issued",
                                         !.calls[c].work = <<>>,
                                         !.calls[c].stage = inflight.calls[c].stage + 1,
                                         !.calls[c].loc = t.loc]
                      /\ last' = last
                 ELSE /\ inflight' = [inflight EXCEPT
                                         !.calls[c].pc = "done",
                                         !.calls[c].work = <<>>,
                                         !.calls[c].err = t.r.err,
                                         !.calls[c].val = t.r.val]
                      /\ last' = [op |-> inflight.calls[c].op,
                                  args |-> <<inflight.calls[c].ino, inflight.calls[c].parent,
                                             inflight.calls[c].name>>,
                                  err |-> t.r.err, val |-> t.r.val]
    /\ UNCHANGED <<handles, mounted, hist>>

\* link and unlink calls dispatched two at a time on files made while no call
\* is in flight.
NextConc ==
    \/ FsInit
    \/ (Idle /\ Mknod(IoKeys))
    \/ Dispatch(ConcCalls)
    \/ TxBegin
    \/ TxCommit

SpecConc == Init /\ [][NextConc]_vars

\* Files and directories made, hard-linked and unlinked.
NextCreate ==
    \/ FsInit
    \/ Mknod(Keys)
    \/ Mkdir(Keys)
    \/ Link(Keys)
    \/ Unlink(Keys)

SpecCreate == Init /\ [][NextCreate]_vars

\* Files made, written and truncated.
NextTrunc ==
    \/ FsInit
    \/ Mknod(IoKeys)
    \/ Open(IoInos)
    \/ Write(SlotIds, TruncOffsets, DataLens)
    \/ Release(SlotIds)
    \/ Setattr(IoInos, SizePatches)

SpecTrunc == Init /\ [][NextTrunc]_vars

\* Files made, written from the start and read at any offset.
NextRead ==
    \/ FsInit
    \/ Mknod(IoKeys)
    \/ Open(IoInos)
    \/ Write(SlotIds, {0}, DataLens)
    \/ Release(SlotIds)
    \/ Read(IoInos, ReadOffsets, ReadLens)
    \/ ReadFault(IoInos, {0}, {1})

SpecRead == Init /\ [][NextRead]_vars

\* Sessions that follow one another on one store, with directories made,
\* hard-linked and removed.
NextBoot ==
    \/ FsInit
    \/ Remount
    \/ Mkdir(Keys)
    \/ LinkDir(Keys)
    \/ Rmdir(Keys)

SpecBoot == Init /\ [][NextBoot]_vars

\* Files opened with any flag word, several at once, and released.
NextOpen ==
    \/ FsInit
    \/ Mknod(IoKeys)
    \/ OpenWith(IoInos, FlagWords, SlabSlots)
    \/ Release(SlabSlots)

SpecOpen == Init /\ [][NextOpen]_vars

\* Files and directories made and hard-linked, and directories listed.
NextList ==
    \/ FsInit
    \/ Mknod(ListKeys)
    \/ Mkdir(ListKeys)
    \/ Link(ListKeys)
    \/ Readdir(ListInos, ListOffsets, ReplyRooms)

SpecList == Init /\ [][NextList]_vars

\* Files made, written, truncated, unlinked and removed as directories.
NextOrphan ==
    \/ FsInit
    \/ Mknod(IoKeys)
    \/ Open(IoInos)
    \/ Write(SlotIds, {0}, DataLens)
    \/ Flush(SlotIds)
    \/ Release(SlotIds)
    \/ Unlink(IoKeys)
    \/ Rmdir(IoKeys)
    \/ Setattr(IoInos, SizePatches)

SpecOrphan == Init /\ [][NextOrphan]_vars

\* Files made and written through to the block store.
NextWrite ==
    \/ FsInit
    \/ Mknod(IoKeys)
    \/ WriteThrough(IoInos, WriteOffsets, DataLens)

SpecWrite == Init /\ [][NextWrite]_vars

\* Seeking on a handle of a file whose size changes and that may be purged.
NextSeek ==
    \/ FsInit
    \/ Mknod(IoKeys)
    \/ Setattr(IoInos, SizePatches)
    \/ Open(IoInos)
    \/ Lseek(IoInos, SeekHandles, SeekOffsets, Whences)
    \/ Release(SlotIds)
    \/ Unlink(IoKeys)

SpecSeek == Init /\ [][NextSeek]_vars

\* Every call of the driver served on its own.
NextSerial ==
    \/ NextNs
    \/ Open(InoIds)
    \/ Write(SlotIds, WriteOffsets, DataLens)
    \/ Flush(SlotIds)
    \/ Release(SlotIds)
    \/ Read(InoIds, ReadOffsets, ReadLens)
    \/ ReadFault(InoIds, ReadOffsets, ReadLens)
    \/ Setattr(InoIds, SizePatches \cup OwnerPatches)
    \/ Remount
    \/ LinkDir(Keys)
    \/ Readdir(InoIds, ListOffsets, ReplyRooms)
    \/ WriteThrough(InoIds, WriteOffsets, DataLens)
    \/ Lseek(InoIds, SeekHandles, SeekOffsets, Whences)

\* Every call of the driver: one at a time while no write transaction is
\* open, and link and unlink calls in flight together.
Next ==
    \/ (WriterFree /\ NextSerial)
    \/ Dispatch(ConcCalls)
    \/ TxBegin
    \/ TxCommit

Spec == Init /\ [][Next]_vars

(* ------------------------------- properties ---------------------------- *)

\* C1: in the state a successful make_node(parent, name, ...) leaves, before any
\* other call touches the entry or the inode, lookup(parent, name) succeeds and
\* returns the very attributes make_node returned: the assigned id, kind, uid,
\* gid, permission, link count and size.
C1_LookupReturnsCreated ==
    (last.op = "mknod" /\ last.err = "Ok") =>
        LET r == lookup_impl(db, last.args[1], last.args[2])
        IN /\ IsOk(r)
           /\ r.val = last.val
           /\ r.val.ino = db.dir_entries[last.args]

\* A make_node under parent 2 has succeeded, and its record carries an assigned
\* id, a link count of 1 and the caller's uid.
C1_Witness ==
    /\ last.op = "mknod"
    /\ last.err = "Ok"
    /\ last.val.ino > 1
    /\ last.val.nlink = 1
    /\ last.val.uid = 1337
    /\ last.args[1] = 2

\* C2: a lookup(parent, name) call fails with NotFound when no entry
\* (parent, name) exists and when the entry exists but the inode it names does
\* not; the call changes neither the store nor the handle table.
C2_LookupNotFound ==
    [][last'.op = "lookup" =>
          /\ db' = db /\ handles' = handles
          /\ ((last'.args \notin DOMAIN db.dir_entries
                \/ db.dir_entries[last'.args] \notin DOMAIN db.inodes)
               => last'.err = "NotFound")]_vars

\* A lookup has failed with NotFound on an entry that exists and names an
\* inode that does not.
C2_Witness ==
    /\ last.op = "lookup"
    /\ last.err = "NotFound"
    /\ last.args \in DOMAIN db.dir_entries
    /\ db.dir_entries[last.args] \notin DOMAIN db.inodes

\* The handle of history record h was opened on an empty file without blocks,
\* and no write call reached its file but the ones it accepted.
Undisturbed(h) == h.fresh /\ NW(h.ino) = Len(h.writes)

\* The data of the writes ws, one after the other.
RECURSIVE Concat(_)
Concat(ws) == IF ws = <<>> THEN <<>> ELSE Head(ws).data \o Concat(Tail(ws))

\* Each write of ws starts where the one before it ended, the first at 0.
Sequential(ws) ==
    /\ ws # <<>>
    /\ ws[1].offset = 0
    /\ \A i \in 1..(Len(ws) - 1) : ws[i + 1].offset = ws[i].offset + Len(ws[i].data)

\* base with data laid over it from offset off on.
Merge(base, off, data) == Take(base, off) \o data \o Skip(base, off + Len(data))

\* The last call was a read of n bytes or more at offset 0 of h's file.
ReadFrom0(h, n) ==
    /\ last.op = "read"
    /\ last.args[1] = h.ino
    /\ last.args[2] = 0
    /\ last.args[3] >= n

\* C3: on a freshly created empty file, one write of N bytes at offset 0 through
\* a handle and the flush or release of that handle succeed, and after them a
\* read of N bytes at offset 0 is answered with exactly the written bytes, for
\* N below one block, exactly one block and more than one block.
C3_WriteReadRoundTrip ==
    \A fh \in DOMAIN hist.slots :
        LET h == hist.slots[fh]
        IN (/\ Undisturbed(h)
            /\ Len(h.writes) = 1
            /\ h.writes[1].offset = 0)
           => /\ h.ok
              /\ (/\ h.flushed \/ h.released
                  /\ ReadFrom0(h, Len(h.writes[1].data))
                  /\ last.args[3] = Len(h.writes[1].data))
                 => last.reply = [kind |-> "data", data |-> h.writes[1].data]

\* A read has returned the three bytes (more than one block) that one write put
\* at offset 0 of a fresh file and a flush committed, the handle still open.
C3_Witness ==
    \E fh \in DOMAIN hist.slots :
        LET h == hist.slots[fh]
        IN /\ Undisturbed(h) /\ h.ok
           /\ Len(h.writes) = 1
           /\ h.writes[1].offset = 0
           /\ Len(h.writes[1].data) = 3
           /\ h.flushed /\ ~h.released
           /\ ReadFrom0(h, 3)
           /\ last.args[3] = 3
           /\ last.reply.data = h.writes[1].data

\* C4: writes on one handle, each starting where the one before ended and the
\* first at offset 0 of an empty file, with no flush call between them, succeed
\* and so does the release; after the release a read of the whole range is
\* answered with the written data concatenated in order, whether or not the
\* buffer filled up on the way.
C4_SequentialWrites ==
    \A fh \in DOMAIN hist.slots :
        LET h == hist.slots[fh]
        IN (/\ Undisturbed(h)
            /\ Sequential(h.writes)
            /\ ~h.mid)
           => /\ h.ok
              /\ (h.released /\ ReadFrom0(h, Len(Concat(h.writes))))
                 => last.reply = [kind |-> "data", data |-> Concat(h.writes)]

\* A read has returned the concatenation of two sequential writes that
\* together exceed the buffer's capacity, after the release.
C4_Witness ==
    \E fh \in DOMAIN hist.slots :
        LET h == hist.slots[fh]
        IN /\ Undisturbed(h) /\ h.ok
           /\ Sequential(h.writes)
           /\ Len(h.writes) = 2
           /\ Len(Concat(h.writes)) > BUFFER_CAP
           /\ ~h.mid
           /\ h.released
           /\ ReadFrom0(h, Len(Concat(h.writes)))
           /\ last.reply.data = Concat(h.writes)

\* C5: a write at an offset other than the handle's write cursor commits the
\* buffered bytes at the offset they were accepted for before the cursor moves:
\* a write at offset 0 of an empty file, a second write that lies inside the
\* first one's range (at offset 0 or further in) and the release succeed, and
\* after them a full read is answered with the first write's bytes overlaid by
\* the second's from its offset on.
C5_SeekFlushesBuffer ==
    \A fh \in DOMAIN hist.slots :
        LET h == hist.slots[fh]
            merged == Merge(h.writes[1].data, h.writes[2].offset, h.writes[2].data)
        IN (/\ Undisturbed(h)
            /\ Len(h.writes) = 2
            /\ h.writes[1].offset = 0
            /\ h.writes[2].offset + Len(h.writes[2].data) <= Len(h.writes[1].data))
           => /\ h.ok
              /\ (h.released /\ ReadFrom0(h, Len(merged)))
                 => last.reply = [kind |-> "data", data |-> merged]

\* A full read has returned one new byte followed by the second and third byte
\* of the first write, which was still partly buffered when the second write
\* moved the cursor back to 0.
C5_Witness ==
    \E fh \in DOMAIN hist.slots :
        LET h == hist.slots[fh]
        IN /\ Undisturbed(h) /\ h.ok
           /\ Len(h.writes) = 2
           /\ h.writes[1].offset = 0 /\ Len(h.writes[1].data) = 3
           /\ h.writes[2].offset = 0 /\ Len(h.writes[2].data) = 1
           /\ ~h.mid
           /\ h.released
           /\ ReadFrom0(h, 3)
           /\ last.reply.data = h.writes[2].data \o Skip(h.writes[1].data, 1)

\* The directory entries of store d whose child is inode i.
EntriesOf(d, i) == {k \in DOMAIN d.dir_entries : d.dir_entries[k] = i}

\* C6: an unlink(parent, name) call on an existing entry removes that entry;
\* it lowers the target inode's link count by one and keeps the inode when the
\* result is above 0, and removes the inode and every block of it when the
\* result is 0.  On a missing entry it fails with NotFound and changes nothing.
C6_UnlinkAsStated ==
    [][last'.op = "unlink" =>
          IF last'.args \in DOMAIN db.dir_entries
          THEN LET ino == db.dir_entries[last'.args]
               IN /\ last'.args \notin DOMAIN db'.dir_entries
                  /\ ino \in DOMAIN db.inodes =>
                        IF db.inodes[ino].nlink - 1 > 0
                        THEN /\ ino \in DOMAIN db'.inodes
                             /\ db'.inodes[ino].nlink = db.inodes[ino].nlink - 1
                        ELSE /\ ino \notin DOMAIN db'.inodes
                             /\ BnosFrom(db', ino, 0) = {}
          ELSE last'.err = "NotFound" /\ db' = db]_vars

\* The ids the store has handed out to files and whose inode is gone.
Purged == {i \in 2..(db.next_ino - 1) : i \notin DOMAIN db.inodes}

\* C7: once the unlink that brings a file's link count to 0 has removed its
\* inode, no block keyed by the file's id exists, and every read on that id
\* ends in NotFound and is answered with empty data, whatever content had been
\* written and flushed before.
C7_PurgedFileHasNoBlocks ==
    \A i \in Purged :
        /\ BnosFrom(db, i, 0) = {}
        /\ (last.op = "read" /\ last.args[1] = i)
             => (last.err = "NotFound" /\ last.reply = [kind |-> "data", data |-> <<>>])

\* A read on a purged id has been answered with empty data; the file had
\* content: a handle wrote to it and was released without an error, which
\* committed the bytes while the inode was still there.
C7_Witness ==
    \E i \in Purged, fh \in DOMAIN hist.slots :
        LET h == hist.slots[fh]
        IN /\ h.ino = i /\ h.ok /\ h.released /\ Len(h.writes) > 0
           /\ last.op = "read" /\ last.args[1] = i
           /\ last.reply = [kind |-> "data", data |-> <<>>]

\* C8: after any sequence of make_node, link, unlink and rename calls, the link
\* count of every inode that is not a directory equals the number of directory
\* entries whose child is that inode.
C8_LinkCountIsEntryCount ==
    \A i \in DOMAIN db.inodes :
        db.inodes[i].kind # "Directory" =>
            db.inodes[i].nlink = Cardinality(EntriesOf(db, i))

\* C9: a remove_directory(parent, name) call on an entry whose inode is the
\* parent of at least one entry fails with NotEmpty and changes nothing; on an
\* entry whose inode is the parent of none it succeeds and removes both the
\* inode and the entry.
C9_RmdirNotEmpty ==
    [][(last'.op = "rmdir" /\ last'.args \in DOMAIN db.dir_entries) =>
          LET ino == db.dir_entries[last'.args]
          IN IF \E k \in DOMAIN db.dir_entries : k[1] = ino
             THEN last'.err = "NotEmpty" /\ db' = db
             ELSE /\ last'.err = "Ok"
                  /\ ino \notin DOMAIN db'.inodes
                  /\ last'.args \notin DOMAIN db'.dir_entries]_vars

\* A remove_directory has failed with NotEmpty on a directory made by
\* make_directory: its inode and its entry are still there, and so is an entry
\* under it.
C9_Witness ==
    /\ last.op = "rmdir"
    /\ last.err = "NotEmpty"
    /\ last.args \in DOMAIN db.dir_entries
    /\ LET ino == db.dir_entries[last.args]
       IN /\ ino \in DOMAIN db.inodes
          /\ db.inodes[ino].kind = "Directory"
          /\ ino # last.args[1]
          /\ \E k \in DOMAIN db.dir_entries : k[1] = ino

\* C10: a rename(parent, name, new_parent, new_name) call on an existing source
\* entry succeeds and leaves (new_parent, new_name) mapped to the child the
\* source had, replacing any entry that was there, (parent, name) absent
\* (unless it is the destination itself) and every other entry and every inode
\* as it was;
\* on an absent source entry it fails with NotFound and changes nothing.
C10_Rename ==
    [][last'.op = "rename" =>
          LET src == <<last'.args[1], last'.args[2]>>
              dst == <<last'.args[3], last'.args[4]>>
          IN IF src \in DOMAIN db.dir_entries
             THEN /\ last'.err = "Ok"
                  /\ DOMAIN db'.dir_entries = (DOMAIN db.dir_entries \ {src}) \cup {dst}
                  /\ db'.dir_entries[dst] = db.dir_entries[src]
                  /\ \A k \in DOMAIN db'.dir_entries \ {dst} :
                        db'.dir_entries[k] = db.dir_entries[k]
                  /\ db'.inodes = db.inodes
             ELSE last'.err = "NotFound" /\ db' = db]_vars

\* A rename has replaced an entry: the destination now names the source's
\* child, the source key is gone, and a file inode is left that no entry names.
C10_Witness ==
    /\ last.op = "rename"
    /\ last.err = "Ok"
    /\ <<last.args[1], last.args[2]>> \notin DOMAIN db.dir_entries
    /\ <<last.args[3], last.args[4]>> \in DOMAIN db.dir_entries
    /\ \E i \in DOMAIN db.inodes : i > 1 /\ EntriesOf(db, i) = {}

\* C11: when a write, flush or release call on a live handle fails, the handle
\* is still live after the call and its buffer still holds the bytes that were
\* pending; a failed flush or release leaves the handle exactly as it was.
C11_FailedFlushKeepsBuffer ==
    [][(/\ last'.op \in {"write", "flush", "release"}
        /\ last'.err # "Ok"
        /\ last'.args[1] \in DOMAIN handles.entries)
       => LET fh == last'.args[1]
          IN /\ fh \in DOMAIN handles'.entries
             /\ handles'.entries[fh].buffer # <<>>
             /\ last'.op # "write" => handles'.entries[fh] = handles.entries[fh]]_vars

\* Byte b occurs in some block of store d.
Stored(d, b) == \E k \in DOMAIN d.blocks : \E j \in 1..Len(d.blocks[k]) : d.blocks[k][j] = b

\* C12: after every call, no byte in a live handle's buffer is in a block of the
\* store or in the data a read has just returned; a write call at the handle's
\* cursor whose data fits the buffer's free room leaves the store, sizes
\* included, unchanged; and once a flush or release call has committed a
\* buffer, a read of the buffer's range returns its bytes.
C12_BufferedBytesInvisible ==
    [][/\ \A fh \in DOMAIN handles'.entries :
            LET h == handles'.entries[fh]
            IN \A i \in 1..Len(h.buffer) :
                  /\ ~Stored(db', h.buffer[i])
                  /\ last'.op = "read" =>
                        \A j \in 1..Len(last'.reply.data) : last'.reply.data[j] # h.buffer[i]
       /\ (/\ last'.op = "write"
           /\ last'.args[1] \in DOMAIN handles.entries
           /\ write_offset(handles.entries[last'.args[1]]) = last'.args[2]
           /\ Len(handles.entries[last'.args[1]].buffer) + Len(last'.args[3]) <= BUFFER_CAP)
          => db' = db
       /\ (/\ last'.op \in {"flush", "release"}
           /\ last'.err = "Ok"
           /\ last'.args[1] \in DOMAIN handles.entries)
          => LET h == handles.entries[last'.args[1]]
             IN h.buffer # <<>> =>
                  \A checks \in BOOLEAN :
                     read_impl(db', h.ino, h.offset, Len(h.buffer), checks) = Ok(db', h.buffer)]_vars

SpanBlocks(size) == (size + BLOCK_SIZE - 1) \div BLOCK_SIZE

\* C14: in every committed state, no block of a file has a number beyond
\* ceil(size / B) for the file's stored size, whatever writes (past the end of
\* the file included) and truncations were applied.
C14_NoBlockBeyondSize ==
    \A k \in DOMAIN db.blocks :
        k[1] \in DOMAIN db.inodes => k[2] <= SpanBlocks(db.inodes[k[1]].size)

\* C15: in every committed state every inode's block count is
\* ceil(size / 512).
C15_BlockCountFollowsSize ==
    \A i \in DOMAIN db.inodes : db.inodes[i].blocks = PosixBlocks(db.inodes[i].size)

\* C16: a successful set_attributes(id, size = s) call, with k = floor(s / B),
\* leaves no block of the file numbered above k, block k (when there was one)
\* cut to its first s mod B bytes, the blocks below k and those of other files
\* as they were, the inode's size at s with its other fields untouched, and
\* returns the inode's record as stored after the call.
C16_Truncate ==
    [][(/\ last'.op = "setattr"
        /\ last'.err = "Ok"
        /\ "size" \in DOMAIN last'.patch)
       => LET ino == last'.args[1]
              s == last'.patch.size
              k == s \div BLOCK_SIZE
          IN /\ \A key \in DOMAIN db'.blocks : key[1] = ino => key[2] <= k
             /\ \A key \in DOMAIN db.blocks :
                   (key[1] # ino \/ key[2] <= k) =>
                       /\ key \in DOMAIN db'.blocks
                       /\ db'.blocks[key] =
                            IF key = <<ino, k>>
                            THEN SubSeq(db.blocks[key], 1, Min(s % BLOCK_SIZE, Len(db.blocks[key])))
                            ELSE db.blocks[key]
             /\ DOMAIN db'.blocks \subseteq DOMAIN db.blocks
             /\ db'.inodes = [db.inodes EXCEPT ![ino].size = s]
             /\ db'.dir_entries = db.dir_entries
             /\ last'.val = db'.inodes[ino]]_vars

\* A set_attributes(size = 1) has cut a file of three bytes, written and
\* committed by a release and spanning two blocks, down to the first byte:
\* block 1 is gone and block 0 holds one byte.
C16_Witness ==
    /\ last.op = "setattr"
    /\ last.err = "Ok"
    /\ last.patch = [size |-> 1]
    /\ last.val.size = 1
    /\ 0 \in DOMAIN hist.slots
    /\ hist.slots[0].writes = <<[offset |-> 0, data |-> <<11, 12, 13>>]>>
    /\ hist.slots[0].released /\ hist.slots[0].ok
    /\ db.blocks = [key \in {<<last.args[1], 0>>} |-> <<11>>]

\* C17: in every state, for every file id and every size s, a second
\* set_attributes(size = s) right after a first one returns the same record and
\* leaves the same store as the first one did.
C17_TruncateIdempotent ==
    \A ino \in IoInos, patch \in SizePatches :
        Bind(setattr_impl(db, ino, patch), LAMBDA r1 :
        Bind(setattr_impl(Commit(db, r1), ino, patch), LAMBDA r2 :
             /\ r2.err = r1.err
             /\ r2.val = r1.val
             /\ Commit(Commit(db, r1), r2) = Commit(db, r1)))

\* A set_attributes(size = 2) has cut a file of three written bytes at a block
\* boundary: block 0 is full and block 1 is kept, empty.
C17_Witness ==
    /\ last.op = "setattr"
    /\ last.err = "Ok"
    /\ last.patch = [size |-> 2]
    /\ db.inodes[last.args[1]].size = 2
    /\ db.blocks = [key \in {<<last.args[1], 0>>, <<last.args[1], 1>>} |->
                        IF key[2] = 0 THEN <<11, 12>> ELSE <<>>]

\* The last call was a read that the storage engine did not fail, on a file
\* that exists.
ReadOfFile ==
    /\ last.op = "read"
    /\ last.err \notin ReadFaults
    /\ last.args[1] \in DOMAIN db.inodes

\* C18: a read on an existing file of size s at an offset >= s succeeds with
\* no data, also when the offset is greater than s.
C18_ReadPastEndIsEmpty ==
    (ReadOfFile /\ last.args[2] >= db.inodes[last.args[1]].size)
        => /\ last.err = "Ok"
           /\ last.val = <<>>
           /\ last.reply = [kind |-> "data", data |-> <<>>]

\* The bytes of file ino: its blocks' bytes in the order of the block numbers.
RECURSIVE BlockBytes(_, _, _)
BlockBytes(d, ino, bnos) ==
    IF bnos = {} THEN <<>>
    ELSE d.blocks[<<ino, Lowest(bnos)>>] \o BlockBytes(d, ino, bnos \ {Lowest(bnos)})

FileBytes(d, ino) == BlockBytes(d, ino, BnosFrom(d, ino, 0))

\* C19: a read of len bytes at offset < s on a file of size s whose blocks hold
\* its s bytes succeeds and returns the file's bytes offset .. offset + cap - 1,
\* cap = min(len, s - offset).
C19_ReadReturnsRange ==
    (/\ ReadOfFile
     /\ last.args[2] < db.inodes[last.args[1]].size
     /\ Len(FileBytes(db, last.args[1])) = db.inodes[last.args[1]].size)
        => LET bytes == FileBytes(db, last.args[1])
               offset == last.args[2]
               cap == Min(last.args[3], Len(bytes) - offset)
           IN /\ last.err = "Ok"
              /\ last.val = SubSeq(bytes, offset + 1, offset + cap)

\* C20: a read that ends in NotFound is answered with empty data, a read that
\* succeeds with its data, and a read that ends in any other error kind with an
\* error.
C20_ReadReply ==
    (last.op = "read" /\ last.err # "Panic")
        => last.reply = IF last.err = "Ok" THEN [kind |-> "data", data |-> last.val]
                        ELSE IF last.err = "NotFound" THEN [kind |-> "data", data |-> <<>>]
                        ELSE [kind |-> "error", data |-> <<>>]

\* A read on an id without an inode has ended in NotFound and been answered
\* with empty data.
C20_Witness ==
    /\ last.op = "read"
    /\ last.err = "NotFound"
    /\ last.args[1] \notin DOMAIN db.inodes
    /\ last.reply = [kind |-> "data", data |-> <<>>]

\* C21: a release, write or flush call with a handle id that is not live fails
\* with NotFound and changes neither the handle table nor the store; after a
\* successful release the id is not live.
C21_StaleHandle ==
    [][/\ (/\ last'.op \in {"release", "write", "flush"}
           /\ last'.args[1] \notin DOMAIN handles.entries)
          => /\ last'.err = "NotFound"
             /\ handles' = handles
             /\ db' = db
       /\ (last'.op = "release" /\ last'.err = "Ok")
          => last'.args[1] \notin DOMAIN handles'.entries]_vars

\* A release has failed with NotFound on the id of a handle that had been
\* opened and released before.
C21_Witness ==
    /\ last.op = "release"
    /\ last.err = "NotFound"
    /\ last.args[1] \in DOMAIN hist.slots
    /\ hist.slots[last.args[1]].released
    /\ last.args[1] \notin DOMAIN handles.entries

\* C23: a write call that succeeds returns the length of its data.
C23_WriteReturnsLength ==
    (last.op = "write" /\ last.err = "Ok") => last.val = Len(last.args[3])

\* A write of three bytes at an offset other than the cursor, on a handle that
\* held buffered bytes, has returned 3: the call flushed for the seek and again
\* when the buffer filled, and one byte is left in the buffer.
C23_Witness ==
    /\ last.op = "write"
    /\ last.err = "Ok"
    /\ last.val = 3
    /\ LET fh == last.args[1]
       IN /\ fh \in DOMAIN handles.entries
          /\ Len(handles.entries[fh].buffer) = 1
          /\ Len(hist.slots[fh].writes) = 2
          /\ hist.slots[fh].writes[2].offset
                 # hist.slots[fh].writes[1].offset + Len(hist.slots[fh].writes[1].data)
          /\ ~hist.slots[fh].mid

\* C24: in every state and for every live handle, a second flush right after a
\* first one ends as the first did and leaves the store and the handle table as
\* the first left them; a flush of a handle whose buffer is empty changes
\* nothing.
C24_FlushIdempotent ==
    \A fh \in DOMAIN handles.entries :
        Bind(flush_impl(db, handles, fh), LAMBDA r1 :
        Bind(flush_impl(r1.db, r1.handles, fh), LAMBDA r2 :
             /\ r2.err = r1.err
             /\ r2.db = r1.db
             /\ r2.handles = r1.handles
             /\ handles.entries[fh].buffer = <<>> =>
                   (r1.err = "Ok" /\ r1.db = db /\ r1.handles = handles)))

\* A flush has committed the bytes a handle had accepted: the handle is live
\* with an empty buffer and the file has blocks.
C24_Witness ==
    /\ last.op = "flush"
    /\ last.err = "Ok"
    /\ last.args[1] \in DOMAIN handles.entries
    /\ handles.entries[last.args[1]].buffer = <<>>
    /\ hist.slots[last.args[1]].writes # <<>>
    /\ BnosFrom(db, handles.entries[last.args[1]].ino, 0) # {}

\* C25: in every state, make_node with a mode that names a file kind, on a key
\* that is free, commits one inode with permission mode & ~umask, link count
\* 1, size 0, the caller's uid and gid and the given rdev under the next id,
\* and the entry (parent, name) pointing to it, and returns that record; with a
\* mode that names no kind it fails with InvalidArgument whatever the key and
\* the store is as it was. The make_node call served last, when it succeeded,
\* left the record it returned in the store under the entry it was given.
C25_MakeNode ==
    /\ \A req \in Requests, k \in Keys, mode \in MknodModes,
          umask \in MknodUmasks, rdev \in MknodRdevs :
          Bind(mknod_impl(db, req, k[1], k[2], mode, umask, rdev), LAMBDA r :
            /\ FileTypeFromMode(mode) = "None" =>
                  /\ r.err = "InvalidArgument"
                  /\ r.db = db
            /\ (FileTypeFromMode(mode) # "None" /\ k \notin DOMAIN db.dir_entries) =>
                  /\ r.err = "Ok"
                  /\ r.val = [ino |-> db.next_ino, kind |-> FileTypeFromMode(mode),
                              perm |-> AndNot(mode, umask), nlink |-> 1,
                              uid |-> req.uid, gid |-> req.gid, size |-> 0,
                              blocks |-> 0, rdev |-> rdev]
                  /\ db.next_ino \notin DOMAIN db.inodes
                  /\ r.db.inodes = Put(db.inodes, db.next_ino, r.val)
                  /\ r.db.dir_entries = Put(db.dir_entries, k, db.next_ino)
                  /\ r.db.blocks = db.blocks
            /\ ~IsOk(r) => Commit(db, r) = db)
    /\ (last.op = "mknod" /\ last.err = "Ok") =>
          /\ last.val.ino \in DOMAIN db.inodes
          /\ last.val.nlink = 1
          /\ last.val.size = 0
          /\ last.val.perm = AndNot(33188, 18)
          /\ last.val.uid = 1337 /\ last.val.gid = 1338
          /\ last.val.rdev = 0
          /\ db.inodes[last.val.ino] = last.val
          /\ <<last.args[1], last.args[2]>> \in DOMAIN db.dir_entries
          /\ db.dir_entries[<<last.args[1], last.args[2]>>] = last.val.ino

\* make_node has made a second file: the record it returned is stored under
\* id 3 and the entry it was given points to it.
C25_Witness ==
    /\ last.op = "mknod"
    /\ last.err = "Ok"
    /\ last.val.ino = 3
    /\ db.inodes[3] = last.val
    /\ db.dir_entries[<<last.args[1], last.args[2]>>] = 3

\* C26: a link call that succeeds was given an inode that exists; it leaves
\* the inode's stored link count one higher and the rest of its record as it
\* was, adds the entry (new_parent, new_name) pointing to the inode and no
\* other, and returns the stored record with the count it incremented. A link
\* call on an id with no inode fails with NotFound and leaves the store as it
\* was.
C26_Link ==
    [][/\ (last'.op = "link" /\ last'.err = "Ok") =>
             LET ino == last'.args[1]
                 key == <<last'.args[2], last'.args[3]>>
             IN /\ ino \in DOMAIN db.inodes
                /\ db'.inodes = [db.inodes EXCEPT ![ino].nlink = db.inodes[ino].nlink + 1]
                /\ key \notin DOMAIN db.dir_entries
                /\ db'.dir_entries = Put(db.dir_entries, key, ino)
                /\ last'.val = db'.inodes[ino]
                /\ last'.val.nlink = db.inodes[ino].nlink + 1
       /\ (last'.op = "link" /\ last'.args[1] \notin DOMAIN db.inodes) =>
             /\ last'.err = "NotFound"
             /\ db' = db]_vars

\* link has given a file a second name: the call returned link count 2 and
\* two entries point to the file.
C26_Witness ==
    /\ last.op = "link"
    /\ last.err = "Ok"
    /\ last.val.nlink = 2
    /\ last.val.kind = "RegularFile"
    /\ Cardinality({k \in DOMAIN db.dir_entries : db.dir_entries[k] = last.args[1]}) = 2

\* C29: every run of the bootstrap on a store that has inode 1 leaves the
\* store as it was; every run on a store without inode 1 adds one inode and
\* nothing else, a directory with link count 2 stored under id 1.
C29_RootBootstrap ==
    [][last'.op = "init" =>
         IF 1 \in DOMAIN db.inodes
         THEN last'.err = "Ok" /\ db' = db
         ELSE /\ last'.err = "Ok"
              /\ 1 \in DOMAIN db'.inodes
              /\ db'.inodes[1].kind = "Directory"
              /\ db'.inodes[1].nlink = 2
              /\ db'.inodes[1].ino = 1
              /\ db'.inodes = Put(db.inodes, 1, db'.inodes[1])
              /\ db'.dir_entries = db.dir_entries
              /\ db'.blocks = db.blocks]_vars

\* C22: an open call that succeeds returns an id that was not live when it
\* was called, and leaves the handles that were live as they were, with the new
\* handle under the id returned.
C22_HandleIdsDistinct ==
    [][(last'.op = "open" /\ last'.err = "Ok") =>
          /\ last'.val[1] \notin DOMAIN handles.entries
          /\ DOMAIN handles'.entries = DOMAIN handles.entries \cup {last'.val[1]}
          /\ \A fh \in DOMAIN handles.entries : handles'.entries[fh] = handles.entries[fh]
          /\ handles'.entries[last'.val[1]].ino = last'.args[1]]_vars

\* open has handed out id 0 a second time while the handle with id 1 is live:
\* the first holder of id 0 was released in between.
C22_Witness ==
    /\ last.op = "open"
    /\ last.err = "Ok"
    /\ last.val[1] = 0
    /\ DOMAIN handles.entries = {0, 1}

\* C28: the parsed flags of every live handle are those of its raw word: read
\* when the access mode (the word's two lowest bits) is O_RDONLY or O_RDWR,
\* write when it is O_WRONLY or O_RDWR, create, append and truncate when the
\* O_CREAT, O_APPEND and O_TRUNC bit is set, sync when both O_SYNC bits are;
\* and an open that succeeded has returned the flag word it was given.
C28_OpenFlags ==
    /\ \A fh \in DOMAIN handles.entries :
          LET f == handles.entries[fh].flags
              w == f.bits
              acc == w % 4
          IN /\ f.read <=> acc \in {O_RDONLY, O_RDWR}
             /\ f.write <=> acc \in {O_WRONLY, O_RDWR}
             /\ f.create <=> (w \div 64) % 2 = 1
             /\ f.append <=> (w \div 1024) % 2 = 1
             /\ f.truncate <=> (w \div 512) % 2 = 1
             /\ f.sync <=> ((w \div 4096) % 2 = 1 /\ (w \div 1048576) % 2 = 1)
    /\ (last.op = "open" /\ last.err = "Ok") =>
          /\ last.val[2] = last.args[2]
          /\ handles.entries[last.val[1]].flags.bits = last.args[2]

\* The entries a listing of ino yields when it starts at pos and is resumed,
\* at most calls times, from the position of the last entry of each reply,
\* until a reply is empty.
RECURSIVE Listing(_, _, _, _, _)
Listing(d, ino, pos, v, calls) ==
    IF calls = 0 THEN <<>>
    ELSE Bind(readdir_impl(d, ino, pos, v).val, LAMBDA page :
              IF page = <<>> THEN <<>>
              ELSE page \o Listing(d, ino, page[Len(page)].offset, v, calls - 1))

\* C27: in every state, for every directory and every visitor, the listing
\* from the origin, resumed from the position of the last entry returned
\* until a call returns nothing, yields one entry for each entry of the
\* directory and none twice, each with the child id and the kind of the child.
C27_ListingExhaustive ==
    \A ino \in ListInos, v \in Visitors :
        Listable(db, ino) =>
            Bind(Listing(db, ino, 0, v,
                         Cardinality({k \in DOMAIN db.dir_entries : k[1] = ino}) + 1),
                 LAMBDA es :
                   /\ {es[i].name : i \in 1..Len(es)}
                          = {k[2] : k \in {x \in DOMAIN db.dir_entries : x[1] = ino}}
                   /\ \A i, j \in 1..Len(es) : es[i].name = es[j].name => i = j
                   /\ \A i \in 1..Len(es) :
                         /\ es[i].ino = db.dir_entries[<<ino, es[i].name>>]
                         /\ es[i].kind = db.inodes[es[i].ino].kind)

\* readdir on the root, which has three entries, was resumed from the
\* position of the second and has returned the third.
C27_Witness ==
    /\ last.op = "readdir"
    /\ last.err = "Ok"
    /\ last.args = <<1, 2>>
    /\ Len(last.val) = 1
    /\ last.val[1].name = "c"
    /\ Cardinality({k \in DOMAIN db.dir_entries : k[1] = 1}) = 3

\* The calls c1 then c2 served one after the other on the store as d: the
\* store they leave and the reply of each.
SerialRun(d, c1, c2) ==
    LET serve(x, c) == IF c.op = "link" THEN link_impl(x, c.ino, c.parent, c.name)
                       ELSE unlink_impl(x, c.parent, c.name)
    IN Bind(serve(d, c1), LAMBDA r1 :
       Bind(serve(Commit(d, r1), c2), LAMBDA r2 :
            [db |-> Commit(Commit(d, r1), r2),
             first |-> [err |-> r1.err, val |-> r1.val],
             second |-> [err |-> r2.err, val |-> r2.val]]))

\* C30: the step with which the last of two link and unlink calls in flight
\* together replies leaves the store, and has given each call the reply, that
\* serving the two one after the other in one of the two orders gives from
\* the store they were dispatched on; every inode's link count is then the
\* number of entries that name it and every entry names an inode.
C30_Serializable ==
    [][(~Idle /\ Idle') =>
          /\ \E o \in {<<1, 2>>, <<2, 1>>} :
                Bind(SerialRun(inflight.start, inflight'.calls[o[1]], inflight'.calls[o[2]]),
                     LAMBDA s :
                       /\ db' = s.db
                       /\ inflight'.calls[o[1]].err = s.first.err
                       /\ inflight'.calls[o[1]].val = s.first.val
                       /\ inflight'.calls[o[2]].err = s.second.err
                       /\ inflight'.calls[o[2]].val = s.second.val)
          /\ \A i \in DOMAIN db'.inodes :
                i # 1 => db'.inodes[i].nlink
                            = Cardinality({k \in DOMAIN db'.dir_entries : db'.dir_entries[k] = i})
          /\ \A k \in DOMAIN db'.dir_entries : db'.dir_entries[k] \in DOMAIN db'.inodes]_vars

\* Two unlink calls in flight together, on the two names of a file with link
\* count 2, have both succeeded and the file is purged.
C30_Witness ==
    /\ inflight # <<>>
    /\ Idle
    /\ inflight.calls[1].err = "Ok"
    /\ inflight.calls[2].err = "Ok"
    /\ inflight.calls[1].op = "unlink"
    /\ inflight.calls[2].op = "unlink"
    /\ 2 \in DOMAIN inflight.start.inodes
    /\ inflight.start.inodes[2].nlink = 2
    /\ 2 \notin DOMAIN db.inodes
    /\ last.op = "unlink"

\* C34: in every state, the child id of every directory entry is the id of an
\* inode the store holds.
C34_EntriesNameInodes ==
    \A k \in DOMAIN db.dir_entries : db.dir_entries[k] \in DOMAIN db.inodes

\* C33: in every state, the file id of every stored block is the id of an
\* inode the store holds.
C33_BlocksHaveInodes ==
    \A k \in DOMAIN db.blocks : k[1] \in DOMAIN db.inodes

\* File ino is stored without holes: its blocks are numbered 0, 1, ... and
\* hold exactly the bytes its size counts, every block but the last one full.
Contiguous(d, ino) ==
    LET size == d.inodes[ino].size
        n == (size + BLOCK_SIZE - 1) \div BLOCK_SIZE
    IN /\ BnosFrom(d, ino, 0) = 0..(n - 1)
       /\ \A b \in 0..(n - 1) :
             Len(d.blocks[<<ino, b>>]) = Min(BLOCK_SIZE, size - b * BLOCK_SIZE)

\* C31: a write of n > 0 bytes at offset o <= s to a file of size s that is
\* stored without holes is committed and leaves the file with size
\* max(s, o + n), never less than s, its bytes those it had with the data laid
\* over them from offset o on: unchanged in size when the write lies inside the
\* content, and with the bytes the existing blocks did not take stored in new
\* blocks right after them when it goes past their end.
C31_WriteSize ==
    [][(/\ last'.op = "write_through"
        /\ last'.args[1] \in DOMAIN db.inodes
        /\ Len(last'.args[3]) > 0
        /\ last'.args[2] <= db.inodes[last'.args[1]].size
        /\ Contiguous(db, last'.args[1])) =>
          LET ino == last'.args[1]
              o == last'.args[2]
              data == last'.args[3]
              size == db.inodes[ino].size
          IN /\ last'.err = "Ok"
             /\ db'.inodes[ino].size = Max(size, o + Len(data))
             /\ db'.inodes[ino].size >= size
             /\ Contiguous(db', ino)
             /\ FileBytes(db', ino) = Merge(FileBytes(db, ino), o, data)]_vars

====
